---------------------------- MODULE Spec2Model ----------------------------
(***************************************************************************)
(* Admission-control core of the AI gateway (package main): the sliding-   *)
(* window rate limiter, the CORS / rate-limit middleware pipeline and the  *)
(* background reclaimer of idle clients.                                   *)
(*                                                                         *)
(* Time is counted in clock ticks, TicksPerSecond ticks to the second, so  *)
(* that the truncation done by time.Time.Unix() is a real operation.       *)
(* Strings that the code splits or trims are sequences of one-character    *)
(* strings.                                                                *)
(***************************************************************************)
EXTENDS Integers, Sequences, FiniteSets, TLC

(***************************************************************************)
(* Bounds of the model.                                                    *)
(***************************************************************************)
NumProcs == 2
MaxQuota == 2
MaxMinutes == 1
MaxOffset == 1
TicksPerSecond == 2
MaxSweeps == 2
MaxMessages == 1
MaxSkew == 2

(***************************************************************************)
(* Program constants.                                                      *)
(***************************************************************************)
SecondsPerMinute == 60
CleanupMinutes == 5
StatusOK == 200
StatusTooManyRequests == 429
StatusBadRequest == 400
StatusMethodNotAllowed == 405
StatusInternalServerError == 500
StatusServiceUnavailable == 503
DefaultMaxTokens == 150
DefaultTemperature == 7
ClientTimeout == 30

Second == TicksPerSecond
Minute == SecondsPerMinute * Second
CleanupInterval == CleanupMinutes * Minute

Procs == 1 .. NumProcs
Free == 0
Sweeper == NumProcs + 1

(***************************************************************************)
(* Strings as sequences of characters.                                     *)
(***************************************************************************)
IsSpace(c) == c \in {" ", "\t", "\n", "\r"}

RECURSIVE TrimLeft(_)
TrimLeft(s) ==
    IF s # <<>> /\ IsSpace(Head(s)) THEN TrimLeft(Tail(s)) ELSE s

RECURSIVE TrimRight(_)
TrimRight(s) ==
    IF s # <<>> /\ IsSpace(s[Len(s)])
    THEN TrimRight(SubSeq(s, 1, Len(s) - 1))
    ELSE s

\* strings.TrimSpace
TrimSpace(s) == TrimRight(TrimLeft(s))

\* strings.Split(s, sep)[0]: the part of s before the first sep (all of s if
\* sep does not occur).
RECURSIVE SplitFirst(_, _)
SplitFirst(s, sep) ==
    IF s = <<>> \/ Head(s) = sep
    THEN <<>>
    ELSE <<Head(s)>> \o SplitFirst(Tail(s), sep)

\* getClientIP: X-Forwarded-For first, then X-Real-IP, then RemoteAddr.
getClientIP(r) ==
    IF r.xff # <<>>
    THEN TrimSpace(SplitFirst(r.xff, ","))
    ELSE IF r.xri # <<>>
         THEN r.xri
         ELSE SplitFirst(r.remoteAddr, ":")

(***************************************************************************)
(* The requests the model sends.                                           *)
(***************************************************************************)
Methods == {"POST", "OPTIONS"}
ForwardedFor == {<<>>, <<"A">>, <<" ", "B", ",", " ", "A">>}
RealIP == {<<>>, <<"B">>}
RemoteAddrs == {<<"A", ":", "1">>, <<"B", ":", "1">>}
Requests ==
    [method : Methods, xff : ForwardedFor, xri : RealIP, remoteAddr : RemoteAddrs]
\* Requests as connections deliver them: peers with IPv4 and IPv6 addresses
\* (host:port, [host]:port), with and without the proxy headers.
PeerAddrs ==
    {<<"A", ":", "1">>, <<"A", ":", "2">>, <<"B", ":", "1">>,
     <<"[", "a", ":", ":", "1", "]", ":", "1">>,
     <<"[", "a", ":", ":", "2", "]", ":", "1">>}
PeerForwardedFor == {<<>>, <<" ", "B", " ", ",", " ", "A">>, <<"A", ",", "B">>}
PeerRealIP == {<<>>, <<" ", "B">>}
PeerRequests ==
    [method : {"POST"}, xff : PeerForwardedFor, xri : PeerRealIP, remoteAddr : PeerAddrs]
IPs == {getClientIP(r) : r \in Requests \cup PeerRequests}
Quotas == 0 .. MaxQuota

\* The instants at which the clock is observed: the start and up to MaxOffset
\* clock ticks after it, and every whole minute up to MaxMinutes.
Instants ==
    {j : j \in 0 .. MaxOffset} \cup {k * Minute : k \in 1 .. MaxMinutes}
\* The same, and the reclaimer's first tick.
SweepInstants == Instants \cup {CleanupInterval}

(***************************************************************************)
(* Response headers.                                                       *)
(***************************************************************************)
NoHeaders == [k \in {} |-> 0]
SetHeader(h, name, value) ==
    [k \in (DOMAIN h) \cup {name} |-> IF k = name THEN value ELSE h[k]]
\* Fault variant of SetCORS: the Allow-Headers header is forgotten.
SetCORSPartial(h) ==
    SetHeader(SetHeader(h,
        "Access-Control-Allow-Origin", "*"),
        "Access-Control-Allow-Methods", "GET, POST, OPTIONS")

\* corsMiddleware, lines 203-205
SetCORS(h) ==
    SetHeader(SetHeader(SetHeader(h,
        "Access-Control-Allow-Origin", "*"),
        "Access-Control-Allow-Methods", "GET, POST, OPTIONS"),
        "Access-Control-Allow-Headers", "Content-Type")

\* time.Time.Unix(): whole seconds.
Unix(t) == t \div Second

(***************************************************************************)
(* time.Time.After and the two scans over a client's timestamps.           *)
(***************************************************************************)
After(t, u) == t > u

\* Fault variant of ValidRequests: a fixed window, emptied as a whole once
\* its first timestamp is a minute old.
ValidRequestsFixedWindow(requests, t) ==
    IF requests # <<>> /\ ~After(Head(requests), t - Minute) THEN <<>> ELSE requests

\* Fault variant of ValidRequests: a timestamp ahead of the clock is dropped
\* like one that is a minute old.
ValidRequestsNoneAhead(requests, t) ==
    SelectSeq(requests, LAMBDA reqTime : After(reqTime, t - Minute) /\ ~After(reqTime, t))

\* Fault variant of ValidRequests: a timestamp that is exactly a minute old
\* is kept.
ValidRequestsInclusive(requests, t) ==
    SelectSeq(requests, LAMBDA reqTime : ~After(t - Minute, reqTime))

\* isAllowed, lines 122-128: the timestamps after oneMinuteAgo.
ValidRequests(requests, t) ==
    SelectSeq(requests, LAMBDA reqTime : After(reqTime, t - Minute))

\* The history's window: the admissions [t, seen, rt] of a sequence that
\* really happened, at the time rt, in the minute that ends at u,
\* (u - 60 s, u].  The time rt is the clock's time t of the admission unless
\* the clock has been set back.
Trailing(entries, u) ==
    SelectSeq(entries, LAMBDA e : u - e.rt < SecondsPerMinute * TicksPerSecond)

\* Fault variant of HasRecentRequests: only the newest minute counts as
\* recent.
HasRecentRequestsLastMinute(requests, t) ==
    \E i \in 1 .. Len(requests) : After(requests[i], t - Minute)

\* cleanupOldClients, lines 182-188.
HasRecentRequests(requests, t) ==
    \E i \in 1 .. Len(requests) : After(requests[i], t - CleanupInterval)

(***************************************************************************)
(* Request bodies.  A body is a sequence of tokens: the punctuation of an  *)
(* object, members "key": value, and bytes that are no JSON.  json.Decoder *)
(* reads ONE value from the stream and leaves what follows unread.         *)
(***************************************************************************)
Tok(c) == [k |-> c, type |-> "punct", s |-> "", n |-> 0]
Str(key, v) == [k |-> key, type |-> "string", s |-> v, n |-> 0]
Num(key, v) == [k |-> key, type |-> "number", s |-> "", n |-> v]
Arr(key, len) == [k |-> key, type |-> "array", s |-> "", n |-> len]
Null(key) == [k |-> key, type |-> "null", s |-> "", n |-> 0]

Punct(t, c) == t.type = "punct" /\ t.k = c
IsMember(t) == t.type # "punct"

\* The first n tokens of body are an object: { member , member ... }
ObjectAt(body, n) ==
    /\ n >= 2
    /\ n <= Len(body)
    /\ Punct(body[1], "{")
    /\ Punct(body[n], "}")
    /\ n > 2 => n % 2 = 1
    /\ \A i \in 2 .. n - 1 :
           IF i % 2 = 0 THEN IsMember(body[i]) ELSE Punct(body[i], ",")

\* The whole body is one JSON value.
ValidJSON(body) == ObjectAt(body, Len(body))

\* models.GenerateRequest, models.CompleteRequest, models.ChatCompletionRequest:
\* the type of each field, by its JSON key.
FieldType(key) ==
    CASE key = "prompt" -> "string"
      [] key = "messages" -> "array"
      [] key = "max_tokens" -> "number"
      [] key = "temperature" -> "number"
      [] key = "user_id" -> "string"
      [] OTHER -> ""
RequestFields(required) == {required, "max_tokens", "temperature", "user_id"}

\* The value the decoder leaves in a field: that of the last member of the
\* key that is not null, or the zero value.
LastMember(members, key) ==
    LET at == {i \in 1 .. Len(members) :
                   members[i].k = key /\ members[i].type # "null"}
    IN  IF at = {} THEN Null(key)
        ELSE members[CHOOSE i \in at : \A j \in at : j <= i]

ZeroRequest ==
    [ok |-> FALSE, prompt |-> "", messages |-> 0, maxTokens |-> 0, temperature |-> 0]

\* json.NewDecoder(r.Body).Decode(&req), req a struct whose required field
\* has the key required: an error unless the stream starts with an object
\* whose members fit the types of the fields; keys of no field are skipped.
Decode(body, required) ==
    LET ends == {n \in 1 .. Len(body) : ObjectAt(body, n)}
    IN  IF ends = {} THEN ZeroRequest
        ELSE LET n == CHOOSE m \in ends : TRUE
                 members == SelectSeq(SubSeq(body, 2, n - 1), IsMember)
                 fits == \A i \in 1 .. Len(members) :
                             \/ members[i].k \notin RequestFields(required)
                             \/ members[i].type \in {"null", FieldType(members[i].k)}
             IN  IF ~fits THEN ZeroRequest
                 ELSE [ok |-> TRUE,
                       prompt |-> IF required = "prompt"
                                  THEN LastMember(members, "prompt").s ELSE "",
                       messages |-> IF required = "messages"
                                    THEN LastMember(members, "messages").n ELSE 0,
                       maxTokens |-> LastMember(members, "max_tokens").n,
                       temperature |-> LastMember(members, "temperature").n]

\* The bodies the model sends.  Temperatures are in tenths.
Object(members) ==
    <<Tok("{")>> \o
    [i \in 1 .. 2 * Len(members) - 1 |->
        IF i % 2 = 1 THEN members[(i + 1) \div 2] ELSE Tok(",")] \o
    <<Tok("}")>>
Required ==
    {<<>>,
     <<Str("prompt", "")>>, <<Str("prompt", "hi")>>, <<Num("prompt", 1)>>,
     <<Null("prompt")>>,
     <<Arr("messages", 0)>>, <<Arr("messages", MaxMessages)>>,
     <<Str("messages", "hi")>>,
     <<Str("prompt", "hi"), Arr("messages", MaxMessages)>>}
Options ==
    {<<>>,
     <<Num("max_tokens", 0), Num("temperature", 0)>>,
     <<Num("max_tokens", 20), Num("temperature", 3)>>,
     <<Num("max_tokens", 0 - 1), Null("temperature")>>,
     <<Str("max_tokens", "20")>>}
Bodies ==
    {Object(r \o o) : r \in Required, o \in Options}
        \cup {<<>>, <<Tok("#")>>, <<Tok("{"), Str("prompt", "hi")>>,
              Object(<<Str("prompt", "hi")>>) \o <<Tok("#")>>,
              Object(<<Arr("messages", MaxMessages)>>) \o <<Tok("#")>>,
              Object(<<Str("prompt", "hi"), Str("prompt", "")>>)}

(***************************************************************************)
(* The handlers of the AI routes and the service calls behind them.        *)
(***************************************************************************)
AIRoutes == {"/ai/chat/completions", "/ai/complete", "/ai/generate"}
llmBaseURL == "http://llm-server:8082"
model == "distilgpt2"

\* What differs between HandleChatCompletion, HandleComplete and
\* HandleGenerate and between the service functions they call.
HandlerOf(route) ==
    CASE route = "/ai/chat/completions" ->
             [required |-> "messages", empty |-> "Messages cannot be empty",
              failed |-> "Failed to get chat completion",
              endpoint |-> "/chat/completions", wrap |-> "chat completion failed: "]
      [] route = "/ai/complete" ->
             [required |-> "prompt", empty |-> "Prompt cannot be empty",
              failed |-> "Failed to get completion",
              endpoint |-> "/complete", wrap |-> ""]
      [] route = "/ai/generate" ->
             [required |-> "prompt", empty |-> "Prompt cannot be empty",
              failed |-> "Failed to get generation",
              endpoint |-> "/generate", wrap |-> "generation failed: "]

\* A text is a sequence of pieces: literals of the program, numbers printed
\* into it, and data copied into it.
Piece(lit) == [lit |-> lit, n |-> 0, data |-> <<>>]
NumberPiece(n) == [lit |-> "", n |-> n, data |-> <<>>]
DataPiece(data) == [lit |-> "", n |-> 0, data |-> data]
NoError == <<>>

\* http.StatusText
StatusText(code) ==
    CASE code = StatusOK -> "OK"
      [] code = StatusBadRequest -> "Bad Request"
      [] code = StatusMethodNotAllowed -> "Method Not Allowed"
      [] code = StatusInternalServerError -> "Internal Server Error"
      [] OTHER -> ""

\* The body of a response: models.ErrorResponse, or the response text.
NoTime == 0 - 1
NoBody ==
    [code |-> 0, error |-> "", message |-> <<>>, response |-> "",
     timestamp |-> NoTime, model |-> ""]
ErrorBody(code, message) ==
    [NoBody EXCEPT !.code = code, !.error = StatusText(code), !.message = message]
\* The envelope of a 200 answer: Response, Timestamp, Model.
TextBody(text, t, m) ==
    [NoBody EXCEPT !.response = text, !.timestamp = t, !.model = m]

\* Fault variant of FailureMessage: the error of the service is sent.
FailureMessageOfError(route, err) == err

\* The message of the 500 response of the handler of route.
FailureMessage(route, err) == <<Piece(HandlerOf(route).failed)>>

\* Fault variant of InjectDefault: the value is passed on as it is.
InjectNoDefault(value, default) == value

\* if value == 0 { value = default }
InjectDefault(value, default) == IF value = 0 THEN default ELSE value

\* The required field of the decoded request is empty.
EmptyRequired(route, d) ==
    IF HandlerOf(route).required = "prompt" THEN d.prompt = "" ELSE d.messages = 0

\* What the client sends to the backend.
NoPayload ==
    [endpoint |-> "", prompt |-> "", messages |-> 0, maxTokens |-> 0, temperature |-> 0]
\* GetGenerate and GetComplete set the defaults again and build an
\* LLMRequest; GetChatCompletion sends what it is given.
Payload(route, d) ==
    IF route = "/ai/chat/completions"
    THEN [endpoint |-> HandlerOf(route).endpoint, prompt |-> "",
          messages |-> d.messages, maxTokens |-> d.maxTokens,
          temperature |-> d.temperature]
    ELSE [endpoint |-> HandlerOf(route).endpoint, prompt |-> d.prompt,
          messages |-> 0,
          maxTokens |-> InjectDefault(d.maxTokens, DefaultMaxTokens),
          temperature |-> InjectDefault(d.temperature, DefaultTemperature)]

\* The outcome of s.client.Do and io.ReadAll: an error of the transport, the
\* client's timeout, or a response with a status and a body.
NoReply == [kind |-> "", status |-> 0, body |-> <<>>]
ReplyBodies ==
    {<<>>, <<Tok("#")>>,
     Object(<<>>),
     Object(<<Str("generated_text", "text")>>),
     Object(<<Str("generated_text", "")>>),
     Object(<<Num("generated_text", 1)>>),
     Object(<<Str("completion", "text")>>),
     Object(<<Str("content", " text ")>>),
     Object(<<Str("generated_text", " text ")>>),
     Object(<<Str("completion", " text ")>>),
     Object(<<Str("content", "text"), Str("generated_text", "other")>>),
     Object(<<Str("generated_text", "text")>>) \o <<Tok("#")>>}
TimeoutReply == [kind |-> "timeout", status |-> 0, body |-> <<>>]
Replies ==
    {[kind |-> "transport", status |-> 0, body |-> <<>>], TimeoutReply}
        \cup {[kind |-> "response", status |-> StatusOK, body |-> b] : b \in ReplyBodies}
        \cup {[kind |-> "response", status |-> StatusServiceUnavailable, body |-> b] :
                 b \in {<<Tok("#")>>, Object(<<Str("detail", "down")>>)}}

\* Fault variant of HasDeadline: the client is built without a Timeout.
HasNoDeadline(timeout) == FALSE

\* http.Client: a Timeout of zero means no timeout.
HasDeadline(timeout) == timeout > 0

\* strings.TrimSpace of a reply text.
TrimText(text) == IF text = " text " THEN "text" ELSE text

\* Fault variant of NoContent: a text that is missing is an empty text.
NoContentIsEmptyText(route) == [err |-> NoError, text |-> ""]

\* What the service function returns when the payload has no text for it.
NoContent(route) ==
    [err |-> <<Piece(CASE route = "/ai/generate" ->
                              "LLM server returned empty generated text"
                       [] route = "/ai/complete" ->
                              "LLM server returned empty or invalid completion"
                       [] route = "/ai/chat/completions" ->
                              "unexpected response format from LLM server")>>,
     text |-> ""]

\* json.Unmarshal(body, &response) and what the service function makes of
\* it: [err, text].  Unmarshal takes the whole body; LLMResponse has typed
\* fields, a map takes any object.
ParseReply(route, body) ==
    LET members == IF ValidJSON(body)
                   THEN SelectSeq(SubSeq(body, 2, Len(body) - 1), IsMember)
                   ELSE <<>>
        typed == \A i \in 1 .. Len(members) :
                     members[i].k \in {"generated_text", "prompt"}
                         => members[i].type \in {"null", "string"}
        has(key) == LastMember(members, key).type = "string"
        val(key) == LastMember(members, key).s
        syntax == <<Piece("failed to parse LLM response: ")>>
    IN  IF ~ValidJSON(body) THEN [err |-> syntax, text |-> ""]
        ELSE CASE route = "/ai/generate" ->
                      IF ~typed THEN [err |-> syntax, text |-> ""]
                      ELSE IF val("generated_text") = ""
                      THEN NoContent(route)
                      ELSE [err |-> NoError, text |-> val("generated_text")]
               [] route = "/ai/complete" ->
                      IF has("completion") /\ val("completion") # ""
                      THEN [err |-> NoError, text |-> val("completion")]
                      ELSE NoContent(route)
               [] route = "/ai/chat/completions" ->
                      IF has("content")
                      THEN [err |-> NoError, text |-> TrimText(val("content"))]
                      ELSE IF has("generated_text")
                      THEN [err |-> NoError, text |-> TrimText(val("generated_text"))]
                      ELSE NoContent(route)

\* The result of the service function for the outcome reply of its call.
ServiceResult(route, reply) ==
    LET wrap == IF HandlerOf(route).wrap = "" THEN <<>> ELSE <<Piece(HandlerOf(route).wrap)>>
    IN  CASE reply.kind \in {"transport", "timeout"} ->
                 [err |-> wrap \o <<Piece("failed to connect to LLM server at "),
                                    Piece(llmBaseURL), Piece(HandlerOf(route).endpoint),
                                    Piece(reply.kind)>>,
                  text |-> ""]
          [] reply.kind = "response" /\ reply.status # StatusOK ->
                 [err |-> wrap \o <<Piece("LLM server responded with status "),
                                    NumberPiece(reply.status), DataPiece(reply.body)>>,
                  text |-> ""]
          [] OTHER ->
                 LET r == ParseReply(route, reply.body)
                 IN  IF r.err = NoError THEN r
                     ELSE [err |-> wrap \o r.err, text |-> ""]

\* The backend call failed in transport, timed out, or was answered with a
\* status other than 200.
CallFailed(reply) ==
    \/ reply.kind \in {"transport", "timeout"}
    \/ reply.kind = "response" /\ reply.status # StatusOK
\* Where a request is once its backend call has ended.
Outcome(route, reply) ==
    CASE reply.kind = "timeout" -> "TimedOut"
      [] reply.kind = "transport" -> "BackendError"
      [] reply.status # StatusOK -> "BackendError"
      [] ServiceResult(route, reply).err # NoError -> "MalformedResponse"
      [] OTHER -> "Succeeded"

VARIABLES
    wiring,       \* the quota each served route is wired with (main)
    now,          \* the clock
    tickPending,  \* the reclaimer's ticker channel holds a tick
    clients,      \* rateLimiter.clients: identity -> ClientLimiter
    rlMutex,      \* rateLimiter.mutex: [w: writer or Free, r: set of readers]
    pc,           \* per goroutine: where it is
    req,          \* per goroutine: the request it serves and its quota
    local,        \* per goroutine: the locals of the limiter calls, and what
                  \* the history says of its check (seen, dropped, oldest)
    resp,         \* per goroutine: the response written so far
    sweep,        \* the reclaimer: [pc, t, todo]
    admitted,     \* history: per identity, the admissions of the trailing
                  \* minute (kept by the clock, not by the code): the time t
                  \* of each and the number seen of admissions before it
    history,      \* history: per identity, the time last its latest
                  \* admission was checked at (NoTime: none) and whether
                  \* the reclaimer has ever evicted its entry, and the
                  \* number made of ClientLimiter objects made for it since
                  \* the store last had none, and the largest quota most
                  \* that it has been checked with
    svc,          \* per goroutine: the handler's locals and its backend call
    peer,         \* the request a connection delivers, as it arrives, where
                  \* the model fixes it beforehand
    skew          \* by how much the host clock has been set back in all: the
                  \* time that has really passed is now + skew

vars ==
    <<wiring, now, tickPending, clients, rlMutex, pc, req, local, resp, sweep,
      admitted, history, svc, peer, skew>>

NoRequest == [method |-> "", clientIP |-> <<>>, route |-> "", limit |-> 0]
NoPeer == [method |-> "", xff |-> <<>>, xri |-> <<>>, remoteAddr |-> <<>>]
NoLocal ==
    [t |-> 0, allowed |-> FALSE, remaining |-> 0,
     seen |-> 0, dropped |-> 0, oldest |-> <<>>, rt |-> 0]
NoResponse == [status |-> 0, hdr |-> NoHeaders, calls |-> 0]
NoCall ==
    [stage |-> "", body |-> <<>>, decoded |-> ZeroRequest, sent |-> <<>>,
     reply |-> NoReply, err |-> NoError, out |-> NoBody, ctxDone |-> FALSE]

\* The state every process starts in, but for the routes wired.
Boot ==
    /\ now = 0
    /\ skew = 0
    /\ tickPending = FALSE
    /\ clients = [ip \in {} |-> 0]
    /\ rlMutex = [w |-> Free, r |-> {}]
    /\ pc = [p \in Procs |-> "idle"]
    /\ req = [p \in Procs |-> NoRequest]
    /\ local = [p \in Procs |-> NoLocal]
    /\ resp = [p \in Procs |-> NoResponse]
    /\ sweep = [pc |-> "wait", t |-> 0, todo |-> {}]
    /\ admitted = [ip \in IPs |-> <<>>]
    /\ history = [ip \in IPs |-> [last |-> NoTime, evicted |-> FALSE, made |-> 0, most |-> 0]]
    /\ svc = [p \in Procs |-> NoCall]

\* The same, with the requests chosen as they come.
Start ==
    /\ Boot
    /\ peer = NoPeer

\* A server with one route, wired with a quota of the model's range.
Init ==
    /\ Start
    /\ wiring \in [{"/ai/generate"} -> Quotas]


(***************************************************************************)
(* Locks.  rateLimiter.mutex is a sync.RWMutex, each ClientLimiter.mutex a *)
(* sync.Mutex.                                                             *)
(***************************************************************************)
\* Fault variant of MutexFree: a mutex that excludes nobody (a lock copied
\* by value).
MutexFreeNoExclusion(h) == TRUE

\* A mutex whose holder is h can be acquired.
MutexFree(h) == h = Free
\* sync.RWMutex.Lock may proceed: no writer and no reader holds it.
CanLock(m) == MutexFree(m.w) /\ m.r = {}
\* sync.RWMutex.RLock may proceed: no writer holds it.
CanRLock(m) == MutexFree(m.w)
\* sync.Mutex.Lock may proceed.
CanLockClient(c) == MutexFree(c.mutex)

HasClient(ip) == ip \in DOMAIN clients
Window(ip) == IF HasClient(ip) THEN clients[ip].requests ELSE <<>>

\* Fault variant of PutClient: the store is rebuilt around the one entry.
PutClientAlone(ip, c) == [k \in {ip} |-> c]

\* rateLimiter.clients[ip] = c
PutClient(ip, c) ==
    [k \in (DOMAIN clients) \cup {ip} |-> IF k = ip THEN c ELSE clients[k]]
\* delete(rateLimiter.clients, ip)
DeleteClient(ip) ==
    [k \in (DOMAIN clients) \ {ip} |-> clients[k]]

(***************************************************************************)
(* main: the routes and the quota each is wired with.                      *)
(***************************************************************************)
Routes ==
    {"/ai/chat/completions", "/ai/complete", "/ai/generate", "/ai/model-info",
     "/health", "/"}
\* Fault variant of RouteQuota: every route is wired with the same quota.
RouteQuotaFlat(route) == 100

RouteQuota(route) ==
    CASE route \in {"/ai/chat/completions", "/ai/complete", "/ai/generate"} -> 30
      [] route = "/ai/model-info" -> 100
      [] route = "/health" -> 200
      [] route = "/" -> 100

\* Fault variant of protectedHandler: the preflight request is not answered
\* by the CORS stage and goes on to the rate-limit stage.
protectedHandlerNoPreflight(p, r, route, rateLimit) ==
    /\ pc[p] = "idle"
    /\ \A q \in Procs : q < p => pc[q] # "idle"
    /\ req' = [req EXCEPT ![p] =
                 [method |-> r.method, clientIP |-> getClientIP(r),
                  route |-> route, limit |-> rateLimit]]
    /\ resp' = [resp EXCEPT ![p] =
                  [status |-> 0, hdr |-> SetCORS(NoHeaders), calls |-> 0]]
    /\ pc' = [pc EXCEPT ![p] = "isAllowed_lock"]
    /\ UNCHANGED <<wiring, peer, skew, now, tickPending, clients, rlMutex, local, sweep, admitted, history, svc>>

(***************************************************************************)
(* protectedHandler(handler, rateLimit) serving request r: corsMiddleware  *)
(* runs first, and for a request that is not a preflight the rate-limit    *)
(* stage resolves the client identity.                                     *)
(***************************************************************************)
protectedHandler(p, r, route, rateLimit) ==
    /\ pc[p] = "idle"
    /\ \A q \in Procs : q < p => pc[q] # "idle"
    /\ req' = [req EXCEPT ![p] =
                 [method |-> r.method, clientIP |-> getClientIP(r),
                  route |-> route, limit |-> rateLimit]]
    /\ IF r.method = "OPTIONS"
       THEN /\ resp' = [resp EXCEPT ![p] =
                          [status |-> StatusOK, hdr |-> SetCORS(NoHeaders), calls |-> 0]]
            /\ pc' = [pc EXCEPT ![p] = "done"]
       ELSE /\ resp' = [resp EXCEPT ![p] =
                          [status |-> 0, hdr |-> SetCORS(NoHeaders), calls |-> 0]]
            /\ pc' = [pc EXCEPT ![p] = "isAllowed_lock"]
    /\ UNCHANGED <<wiring, peer, skew, now, tickPending, clients, rlMutex, local, sweep, admitted, history, svc>>

\* A request arrives on one of the routes served.
Request(p) ==
    \E r \in Requests, route \in DOMAIN wiring :
        protectedHandler(p, r, route, wiring[route])

(***************************************************************************)
(* isAllowed(clientIP, limit)                                              *)
(***************************************************************************)
\* line 104: rateLimiter.mutex.Lock()
isAllowed_Lock(p) ==
    /\ pc[p] = "isAllowed_lock"
    /\ CanLock(rlMutex)
    /\ rlMutex' = [rlMutex EXCEPT !.w = p]
    /\ pc' = [pc EXCEPT ![p] = "isAllowed_client"]
    /\ UNCHANGED <<wiring, peer, skew, now, tickPending, clients, req, local, resp, sweep, admitted, history, svc>>

\* Fault variant of NewClientLimiter: the window of a new entry starts with
\* a timestamp of the time the entry is made.
NewClientLimiterUsed == [requests |-> <<now>>, mutex |-> Free]

\* lines 110-112: &ClientLimiter{requests: make([]time.Time, 0)}
NewClientLimiter == [requests |-> <<>>, mutex |-> Free]

\* Fault variant of MissingClient: the entry is made without looking.
MissingClientAlways(ip) == TRUE

\* line 108: rateLimiter.clients[clientIP] == nil
MissingClient(ip) == ~HasClient(ip)

\* lines 108-115: get or create the client limiter, client.mutex.Lock()
isAllowed_Client(p) ==
    LET ip == req[p].clientIP
        c == IF MissingClient(ip) THEN NewClientLimiter ELSE clients[ip]
    IN  /\ pc[p] = "isAllowed_client"
        /\ CanLockClient(c)
        /\ clients' = PutClient(ip, [c EXCEPT !.mutex = p])
        /\ history' = IF MissingClient(ip)
                      THEN [history EXCEPT ![ip].made = @ + 1]
                      ELSE history
        /\ pc' = [pc EXCEPT ![p] = "isAllowed_check"]
        /\ UNCHANGED <<wiring, peer, skew, now, tickPending, rlMutex, req, local, resp, sweep, admitted, svc>>

\* The deferred unlocks of isAllowed: the client's mutex, then the store's.
Unlocked(c) == [c EXCEPT !.mutex = Free]
\* Fault variant of Released: the deferred Unlock of the store's mutex is
\* missing; only a read lock is given back.
ReleasedReadOnly(m, p) == [w |-> m.w, r |-> m.r \ {p}]

\* rateLimiter.mutex.Unlock() / RUnlock() by p
Released(m, p) == [w |-> IF m.w = p THEN Free ELSE m.w, r |-> m.r \ {p}]

\* Fault variant of LimitExceeded: the comparison is off by one.
LimitExceededOffByOne(n, limit) == n > limit

\* line 131: the limit is exceeded
LimitExceeded(n, limit) == n >= limit

\* Fault variant of isAllowed_Check: a denied request is recorded in the
\* window as well.
isAllowed_CheckCountsDenied(p) ==
    LET ip == req[p].clientIP
        valid == ValidRequests(clients[ip].requests, now)
        denied == LimitExceeded(Len(valid), req[p].limit)
    IN  /\ pc[p] = "isAllowed_check"
        /\ local' = [local EXCEPT ![p] =
                       [@ EXCEPT !.t = now,
                                 !.rt = now + skew,
                                 !.allowed = ~denied,
                                 !.seen = Len(admitted[ip]),
                                 !.dropped = Len(clients[ip].requests) - Len(valid),
                                 !.oldest = IF denied /\ valid # <<>>
                                            THEN <<Head(valid)>>
                                            ELSE <<>>]]
        /\ IF denied
           THEN /\ clients' = [clients EXCEPT ![ip] =
                                 Unlocked([@ EXCEPT !.requests = Append(valid, now)])]
                /\ rlMutex' = Released(rlMutex, p)
                /\ pc' = [pc EXCEPT ![p] = "deny"]
           ELSE /\ clients' = [clients EXCEPT ![ip].requests = valid]
                /\ rlMutex' = rlMutex
                /\ pc' = [pc EXCEPT ![p] = "isAllowed_append"]
        /\ history' = [history EXCEPT ![ip].most =
                          IF req[p].limit > @ THEN req[p].limit ELSE @]
        /\ UNCHANGED <<wiring, peer, skew, now, tickPending, req, resp, sweep, admitted, svc>>

\* lines 118-133: prune, then deny when the limit is reached
isAllowed_Check(p) ==
    LET ip == req[p].clientIP
        valid == ValidRequests(clients[ip].requests, now)
        denied == LimitExceeded(Len(valid), req[p].limit)
    IN  /\ pc[p] = "isAllowed_check"
        /\ local' = [local EXCEPT ![p] =
                       [@ EXCEPT !.t = now,
                                 !.rt = now + skew,
                                 !.allowed = ~denied,
                                 !.seen = Len(admitted[ip]),
                                 !.dropped = Len(clients[ip].requests) - Len(valid),
                                 !.oldest = IF denied /\ valid # <<>>
                                            THEN <<Head(valid)>>
                                            ELSE <<>>]]
        /\ IF denied
           THEN /\ clients' = [clients EXCEPT ![ip] =
                                 Unlocked([@ EXCEPT !.requests = valid])]
                /\ rlMutex' = Released(rlMutex, p)
                /\ pc' = [pc EXCEPT ![p] = "deny"]
           ELSE /\ clients' = [clients EXCEPT ![ip].requests = valid]
                /\ rlMutex' = rlMutex
                /\ pc' = [pc EXCEPT ![p] = "isAllowed_append"]
        /\ history' = [history EXCEPT ![ip].most =
                          IF req[p].limit > @ THEN req[p].limit ELSE @]
        /\ UNCHANGED <<wiring, peer, skew, now, tickPending, req, resp, sweep, admitted, svc>>

\* lines 136-137: append the request's time and return true
isAllowed_Append(p) ==
    LET ip == req[p].clientIP
    IN  /\ pc[p] = "isAllowed_append"
        /\ clients' = [clients EXCEPT ![ip] =
                         Unlocked([@ EXCEPT !.requests = Append(@, local[p].t)])]
        /\ rlMutex' = Released(rlMutex, p)
        /\ admitted' = [admitted EXCEPT ![ip] =
                          Trailing(Append(@, [t |-> local[p].t, seen |-> local[p].seen,
                                              rt |-> local[p].rt]),
                                   now + skew)]
        /\ pc' = [pc EXCEPT ![p] = "getRemaining_rlock"]
        /\ local' = [local EXCEPT ![p].dropped = 0]
        /\ history' = [history EXCEPT ![ip].last = local[p].t]
        /\ UNCHANGED <<wiring, peer, skew, now, tickPending, req, resp, sweep, svc>>


\* Fault variant of rateLimitMiddleware_Deny: the return after the 429 is
\* missing and the handler is called.
rateLimitMiddleware_DenyNoReturn(p) ==
    /\ pc[p] = "deny"
    /\ resp' = [resp EXCEPT ![p].status = StatusTooManyRequests]
    /\ pc' = [pc EXCEPT ![p] = "next"]
    /\ UNCHANGED <<wiring, peer, skew, now, tickPending, clients, rlMutex, req, local, sweep, admitted, history, svc>>

(***************************************************************************)
(* rateLimitMiddleware, lines 55-68: the request was denied.               *)
(***************************************************************************)
rateLimitMiddleware_Deny(p) ==
    /\ pc[p] = "deny"
    /\ resp' = [resp EXCEPT ![p] =
                  [status |-> StatusTooManyRequests,
                   hdr |-> SetCORS(
                       SetHeader(SetHeader(SetHeader(resp[p].hdr,
                           "X-RateLimit-Limit", req[p].limit),
                           "X-RateLimit-Remaining", 0),
                           "X-RateLimit-Reset", Unix(now + Minute))),
                   calls |-> resp[p].calls]]
    /\ local' = [local EXCEPT ![p] = [NoLocal EXCEPT !.allowed = local[p].allowed]]
    /\ pc' = [pc EXCEPT ![p] = "done"]
    /\ UNCHANGED <<wiring, peer, skew, now, tickPending, clients, rlMutex, req, sweep, admitted, history, svc>>

(***************************************************************************)
(* getRemainingRequests(clientIP, limit)                                   *)
(***************************************************************************)
\* line 142: rateLimiter.mutex.RLock()
getRemainingRequests_RLock(p) ==
    /\ pc[p] = "getRemaining_rlock"
    /\ CanRLock(rlMutex)
    /\ rlMutex' = [rlMutex EXCEPT !.r = @ \cup {p}]
    /\ pc' = [pc EXCEPT ![p] = "getRemaining_client"]
    /\ UNCHANGED <<wiring, peer, skew, now, tickPending, clients, req, local, resp, sweep, admitted, history, svc>>

\* lines 145-150: no entry: return limit - 1; otherwise client.mutex.Lock()
getRemainingRequests_Client(p) ==
    LET ip == req[p].clientIP
    IN  /\ pc[p] = "getRemaining_client"
        /\ IF ~HasClient(ip)
           THEN /\ local' = [local EXCEPT ![p].remaining = req[p].limit - 1]
                /\ rlMutex' = Released(rlMutex, p)
                /\ clients' = clients
                /\ pc' = [pc EXCEPT ![p] = "headers"]
           ELSE /\ CanLockClient(clients[ip])
                /\ clients' = [clients EXCEPT ![ip].mutex = p]
                /\ UNCHANGED <<local, rlMutex>>
                /\ pc' = [pc EXCEPT ![p] = "getRemaining_count"]
        /\ UNCHANGED <<wiring, peer, skew, now, tickPending, req, resp, sweep, admitted, history, svc>>

\* Fault variant of Remaining: the difference is returned as it is.
RemainingUnclamped(limit, validCount) == limit - validCount

\* lines 164-168
Remaining(limit, validCount) ==
    IF limit - validCount < 0 THEN 0 ELSE limit - validCount

\* Fault variant of getRemainingRequests_Count: the count prunes the window
\* as the check does.
getRemainingRequests_CountPrunes(p) ==
    LET ip == req[p].clientIP
        validCount == Len(ValidRequests(Window(ip), now))
    IN  /\ pc[p] = "getRemaining_count"
        /\ local' = [local EXCEPT ![p].remaining = Remaining(req[p].limit, validCount)]
        /\ clients' = IF HasClient(ip)
                      THEN [clients EXCEPT ![ip] =
                                Unlocked([@ EXCEPT !.requests = ValidRequests(@, now)])]
                      ELSE clients
        /\ rlMutex' = Released(rlMutex, p)
        /\ pc' = [pc EXCEPT ![p] = "headers"]
        /\ UNCHANGED <<wiring, peer, skew, now, tickPending, req, resp, sweep, admitted, history, svc>>

\* lines 153-168: count the valid timestamps
getRemainingRequests_Count(p) ==
    LET ip == req[p].clientIP
        validCount == Len(ValidRequests(Window(ip), now))
    IN  /\ pc[p] = "getRemaining_count"
        /\ local' = [local EXCEPT ![p].remaining = Remaining(req[p].limit, validCount)]
        /\ clients' = IF HasClient(ip)
                      THEN [clients EXCEPT ![ip] = Unlocked(@)]
                      ELSE clients
        /\ rlMutex' = Released(rlMutex, p)
        /\ pc' = [pc EXCEPT ![p] = "headers"]
        /\ UNCHANGED <<wiring, peer, skew, now, tickPending, req, resp, sweep, admitted, history, svc>>

(***************************************************************************)
(* rateLimitMiddleware, lines 72-74: the headers of an admitted request.   *)
(***************************************************************************)
rateLimitMiddleware_Headers(p) ==
    /\ pc[p] = "headers"
    /\ resp' = [resp EXCEPT ![p].hdr =
                  SetHeader(SetHeader(SetHeader(@,
                      "X-RateLimit-Limit", req[p].limit),
                      "X-RateLimit-Remaining", local[p].remaining),
                      "X-RateLimit-Reset", Unix(now + Minute))]
    /\ pc' = [pc EXCEPT ![p] = "next"]
    /\ UNCHANGED <<wiring, peer, skew, now, tickPending, clients, rlMutex, req, local, sweep, admitted, history, svc>>

(***************************************************************************)
(* rateLimitMiddleware, line 76: next(w, r).  The handler answers with one *)
(* of the statuses the handlers write.                                     *)
(***************************************************************************)
HandlerStatuses == {200, 400, 405, 500}

Handler(p) ==
    /\ pc[p] = "next"
    /\ \E status \in HandlerStatuses :
         resp' = [resp EXCEPT ![p].status = status, ![p].calls = @ + 1]
    /\ local' = [local EXCEPT ![p] = [NoLocal EXCEPT !.allowed = local[p].allowed]]
    /\ pc' = [pc EXCEPT ![p] = "done"]
    /\ UNCHANGED <<wiring, peer, skew, now, tickPending, clients, rlMutex, req, sweep, admitted, history, svc>>

\* The response is sent and the goroutine serves the next request.
Finish(p) ==
    /\ pc[p] = "done"
    /\ pc' = [pc EXCEPT ![p] = "idle"]
    /\ req' = [req EXCEPT ![p] = NoRequest]
    /\ local' = [local EXCEPT ![p] = NoLocal]
    /\ resp' = [resp EXCEPT ![p] = NoResponse]
    /\ svc' = [svc EXCEPT ![p] = NoCall]
    /\ UNCHANGED <<wiring, peer, skew, now, tickPending, clients, rlMutex, sweep, admitted, history>>

(***************************************************************************)
(* HandleChatCompletion, HandleComplete and HandleGenerate, with the       *)
(* service call each makes: next(w, r) on the AI routes.                   *)
(***************************************************************************)
\* sendErrorResponse(w, code, message)
sendErrorResponse(r, code) ==
    [r EXCEPT !.status = code,
              !.hdr = SetHeader(@, "Content-Type", "application/json")]

\* Fault variant of HandleAI_Method: a request of the wrong verb gives its
\* admission back.
HandleAI_MethodRefunds(p) ==
    /\ pc[p] = "next"
    /\ req[p].route \in AIRoutes
    /\ local' = [local EXCEPT ![p] = [NoLocal EXCEPT !.allowed = local[p].allowed]]
    /\ IF req[p].method # "POST"
       THEN /\ resp' = [resp EXCEPT ![p] =
                          sendErrorResponse([@ EXCEPT !.calls = @ + 1],
                                            StatusMethodNotAllowed)]
            /\ svc' = [svc EXCEPT ![p].stage = "Rejected",
                                  ![p].out = ErrorBody(StatusMethodNotAllowed,
                                                       <<Piece("Method not allowed")>>)]
            /\ pc' = [pc EXCEPT ![p] = "done"]
            /\ clients' = IF Window(req[p].clientIP) # <<>>
                          THEN [clients EXCEPT ![req[p].clientIP].requests =
                                    SubSeq(@, 1, Len(@) - 1)]
                          ELSE clients
       ELSE /\ resp' = [resp EXCEPT ![p].calls = @ + 1]
            /\ clients' = clients
            /\ svc' = [svc EXCEPT ![p].stage = "Received"]
            /\ pc' = [pc EXCEPT ![p] = "decode"]
    /\ UNCHANGED <<wiring, peer, skew, now, tickPending, rlMutex, req, sweep, admitted, history>>

\* The handler is entered: the method check.
HandleAI_Method(p) ==
    /\ pc[p] = "next"
    /\ req[p].route \in AIRoutes
    /\ local' = [local EXCEPT ![p] = [NoLocal EXCEPT !.allowed = local[p].allowed]]
    /\ IF req[p].method # "POST"
       THEN /\ resp' = [resp EXCEPT ![p] =
                          sendErrorResponse([@ EXCEPT !.calls = @ + 1],
                                            StatusMethodNotAllowed)]
            /\ svc' = [svc EXCEPT ![p].stage = "Rejected",
                                  ![p].out = ErrorBody(StatusMethodNotAllowed,
                                                       <<Piece("Method not allowed")>>)]
            /\ pc' = [pc EXCEPT ![p] = "done"]
       ELSE /\ resp' = [resp EXCEPT ![p].calls = @ + 1]
            /\ svc' = [svc EXCEPT ![p].stage = "Received"]
            /\ pc' = [pc EXCEPT ![p] = "decode"]
    /\ UNCHANGED <<wiring, peer, skew, now, tickPending, clients, rlMutex, req, sweep, admitted, history>>

\* The body is read and decoded, the required field checked, the defaults
\* set.
HandleAI_Decode(p) ==
    /\ pc[p] = "decode"
    /\ \E body \in Bodies :
         LET h == HandlerOf(req[p].route)
             d == Decode(body, h.required)
         IN  IF ~d.ok \/ EmptyRequired(req[p].route, d)
             THEN /\ resp' = [resp EXCEPT ![p] = sendErrorResponse(@, StatusBadRequest)]
                  /\ svc' = [svc EXCEPT
                               ![p].stage = "Rejected",
                               ![p].body = body,
                               ![p].out =
                                   ErrorBody(StatusBadRequest,
                                             IF ~d.ok THEN <<Piece("Invalid JSON format")>>
                                             ELSE <<Piece(h.empty)>>)]
                  /\ pc' = [pc EXCEPT ![p] = "done"]
             ELSE /\ svc' = [svc EXCEPT
                               ![p].stage = "Validated",
                               ![p].body = body,
                               ![p].decoded =
                                   [d EXCEPT
                                      !.maxTokens = InjectDefault(@, DefaultMaxTokens),
                                      !.temperature = InjectDefault(@, DefaultTemperature)]]
                  /\ pc' = [pc EXCEPT ![p] = "service"]
                  /\ resp' = resp
    /\ UNCHANGED <<wiring, peer, skew, now, tickPending, clients, rlMutex, req, local, sweep, admitted, history>>

\* The service function: its own check of the required field, then the
\* request is marshalled and s.client.Do sends it.
GetAI_Call(p) ==
    /\ pc[p] = "service"
    /\ IF EmptyRequired(req[p].route, svc[p].decoded)
       THEN /\ resp' = [resp EXCEPT ![p] =
                          sendErrorResponse(@, StatusInternalServerError)]
            /\ svc' = [svc EXCEPT
                         ![p].stage = "Rejected",
                         ![p].out =
                             ErrorBody(StatusInternalServerError,
                                       FailureMessage(req[p].route,
                                                      <<Piece("cannot be empty")>>))]
            /\ pc' = [pc EXCEPT ![p] = "done"]
       ELSE /\ svc' = [svc EXCEPT
                         ![p].stage = "Dispatched",
                         ![p].sent = Append(@, Payload(req[p].route, svc[p].decoded))]
            /\ pc' = [pc EXCEPT ![p] = "backend"]
            /\ resp' = resp
    /\ UNCHANGED <<wiring, peer, skew, now, tickPending, clients, rlMutex, req, local, sweep, admitted, history>>

\* s.client.Do and io.ReadAll return because the backend has answered or the
\* transport has failed.  Whether and when that happens is up to the backend.
Backend_Answer(p) ==
    /\ pc[p] = "backend"
    /\ \E reply \in Replies \ {TimeoutReply} : svc' = [svc EXCEPT ![p].reply = reply]
    /\ pc' = [pc EXCEPT ![p] = "reply"]
    /\ UNCHANGED <<wiring, peer, skew, now, tickPending, clients, rlMutex, req, local, resp, sweep, admitted, history>>

\* s.client.Do or io.ReadAll returns because the Timeout of s.client has
\* expired.
Backend_Timeout(p) ==
    /\ pc[p] = "backend"
    /\ HasDeadline(ClientTimeout)
    /\ svc' = [svc EXCEPT ![p].reply = TimeoutReply]
    /\ pc' = [pc EXCEPT ![p] = "reply"]
    /\ UNCHANGED <<wiring, peer, skew, now, tickPending, clients, rlMutex, req, local, resp, sweep, admitted, history>>

\* Fault variant of LimiterAfterCall: a failed backend call gives its
\* admission back.
LimiterAfterCallRefund(p, err) ==
    LET ip == req[p].clientIP
    IN  IF err # NoError /\ HasClient(ip) /\ Window(ip) # <<>>
        THEN [clients EXCEPT ![ip].requests = SubSeq(@, 1, Len(@) - 1)]
        ELSE clients

\* The limiter's store after the service function has returned err: neither
\* branch of the handler touches it.
LimiterAfterCall(p, err) == clients

\* The service function returns and the handler answers.
HandleAI_Respond(p) ==
    LET r == ServiceResult(req[p].route, svc[p].reply)
    IN  /\ pc[p] = "reply"
        /\ req[p].route \in AIRoutes
        /\ IF r.err # NoError
           THEN /\ resp' = [resp EXCEPT ![p] =
                              sendErrorResponse(@, StatusInternalServerError)]
                /\ svc' = [svc EXCEPT
                             ![p].stage = Outcome(req[p].route, svc[p].reply),
                             ![p].err = r.err,
                             ![p].out = ErrorBody(StatusInternalServerError,
                                                  FailureMessage(req[p].route, r.err))]
           ELSE /\ resp' = [resp EXCEPT ![p] = sendErrorResponse(@, StatusOK)]
                /\ svc' = [svc EXCEPT
                             ![p].stage = Outcome(req[p].route, svc[p].reply),
                             ![p].out = TextBody(r.text, now, model)]
        /\ clients' = LimiterAfterCall(p, r.err)
        /\ pc' = [pc EXCEPT ![p] = "done"]
        /\ UNCHANGED <<wiring, peer, skew, now, tickPending, rlMutex, req, local, sweep, admitted, history>>

\* HandleHealth: the answer is written whatever the request is.
HandleHealth(p) ==
    /\ pc[p] = "next"
    /\ req[p].route = "/health"
    /\ local' = [local EXCEPT ![p] = [NoLocal EXCEPT !.allowed = local[p].allowed]]
    /\ resp' = [resp EXCEPT ![p] =
                   sendErrorResponse([@ EXCEPT !.calls = @ + 1], StatusOK)]
    /\ svc' = [svc EXCEPT ![p].stage = "Answered",
                          ![p].out = [NoBody EXCEPT !.response = "healthy",
                                                    !.timestamp = now]]
    /\ pc' = [pc EXCEPT ![p] = "done"]
    /\ UNCHANGED <<wiring, peer, skew, now, tickPending, clients, rlMutex, req, sweep, admitted, history>>

\* HandleModelInfo calls GetModelInfo, which sends a GET to the backend.
HandleModelInfo_Call(p) ==
    /\ pc[p] = "next"
    /\ req[p].route = "/ai/model-info"
    /\ local' = [local EXCEPT ![p] = [NoLocal EXCEPT !.allowed = local[p].allowed]]
    /\ resp' = [resp EXCEPT ![p].calls = @ + 1]
    /\ svc' = [svc EXCEPT ![p].stage = "Dispatched",
                          ![p].sent = Append(@, [NoPayload EXCEPT !.endpoint = "/model-info"])]
    /\ pc' = [pc EXCEPT ![p] = "backend"]
    /\ UNCHANGED <<wiring, peer, skew, now, tickPending, clients, rlMutex, req, sweep, admitted, history>>

\* GetModelInfo returns and HandleModelInfo answers: 500 with a fixed
\* message on an error, else 200 with the object the backend sent.
HandleModelInfo_Respond(p) ==
    LET reply == svc[p].reply
        failed == CallFailed(reply) \/ ~ValidJSON(reply.body)
    IN  /\ pc[p] = "reply"
        /\ req[p].route = "/ai/model-info"
        /\ IF failed
           THEN /\ resp' = [resp EXCEPT ![p] =
                              sendErrorResponse(@, StatusInternalServerError)]
                /\ svc' = [svc EXCEPT
                             ![p].stage = IF reply.kind = "timeout" THEN "TimedOut"
                                          ELSE IF CallFailed(reply) THEN "BackendError"
                                          ELSE "MalformedResponse",
                             ![p].out = ErrorBody(StatusInternalServerError,
                                                  <<Piece("Failed to get model information")>>)]
           ELSE /\ resp' = [resp EXCEPT ![p] = sendErrorResponse(@, StatusOK)]
                /\ svc' = [svc EXCEPT
                             ![p].stage = "Succeeded",
                             ![p].out = [NoBody EXCEPT !.message = <<DataPiece(reply.body)>>]]
        /\ pc' = [pc EXCEPT ![p] = "done"]
        /\ UNCHANGED <<wiring, peer, skew, now, tickPending, clients, rlMutex, req, local, sweep, admitted, history>>

\* The caller goes away while the backend call is in flight: the server
\* cancels r.Context().  The request sent to the backend was made with
\* http.NewRequest, whose context is context.Background(), so nothing else
\* changes.
Client_Disconnect(p) ==
    /\ pc[p] = "backend"
    /\ ~svc[p].ctxDone
    /\ svc' = [svc EXCEPT ![p].ctxDone = TRUE]
    /\ UNCHANGED <<wiring, peer, skew, now, tickPending, clients, rlMutex, pc, req, local, resp, sweep, admitted, history>>

HandleAI(p) ==
    \/ HandleAI_Method(p)
    \/ HandleAI_Decode(p)
    \/ GetAI_Call(p)
    \/ Backend_Answer(p)
    \/ Backend_Timeout(p)
    \/ HandleAI_Respond(p)

(***************************************************************************)
(* cleanupOldClients: one sweep per tick of a 5-minute ticker.             *)
(***************************************************************************)
\* lines 175-178: a tick is received; Lock; now := time.Now()
cleanup_Lock ==
    /\ sweep.pc = "wait"
    /\ tickPending
    /\ CanLock(rlMutex)
    /\ tickPending' = FALSE
    /\ rlMutex' = [rlMutex EXCEPT !.w = Sweeper]
    /\ sweep' = [pc |-> "range", t |-> now, todo |-> DOMAIN clients]
    /\ UNCHANGED <<wiring, peer, skew, now, clients, pc, req, local, resp, admitted, history, svc>>

\* lines 180-193: one iteration of the range over the map
cleanup_Visit ==
    /\ sweep.pc = "range"
    /\ \E ip \in sweep.todo :
         /\ CanLockClient(clients[ip])
         /\ clients' = IF HasRecentRequests(clients[ip].requests, sweep.t)
                       THEN clients
                       ELSE DeleteClient(ip)
         /\ history' = IF HasClient(ip) /\ ip \notin DOMAIN clients'
                       THEN [history EXCEPT ![ip].evicted = TRUE, ![ip].made = 0]
                       ELSE history
         /\ sweep' = [sweep EXCEPT !.todo = @ \ {ip}]
    /\ UNCHANGED <<wiring, peer, skew, now, tickPending, rlMutex, pc, req, local, resp, admitted, svc>>

\* line 194: the range is over; Unlock
cleanup_Unlock ==
    /\ sweep.pc = "range"
    /\ sweep.todo = {}
    /\ rlMutex' = Released(rlMutex, Sweeper)
    /\ sweep' = [pc |-> "wait", t |-> 0, todo |-> {}]
    /\ UNCHANGED <<wiring, peer, skew, now, tickPending, clients, pc, req, local, resp, admitted, history, svc>>

(***************************************************************************)
(* The clock advances to a later instant; the ticker fires when a multiple *)
(* of its interval is passed (its channel holds at most one tick).         *)
(***************************************************************************)
\* Fault variant of TickerFires: a timer that fires once, after the first
\* interval.
TickerFiresOnce(t, u) == t < CleanupInterval /\ CleanupInterval <= u

TickerFires(t, u) ==
    \E k \in 1 .. MaxMinutes + CleanupMinutes :
        t < k * CleanupInterval /\ k * CleanupInterval <= u

Advance(instants) ==
    /\ \E u \in instants :
         /\ u > now
         /\ now' = u
         /\ tickPending' = (tickPending \/ TickerFires(now, u))
         /\ admitted' = [ip \in IPs |-> Trailing(admitted[ip], u + skew)]
    /\ UNCHANGED <<wiring, peer, skew, clients, rlMutex, pc, req, local, resp, sweep, history, svc>>

Tick == Advance(Instants)

\* The host clock is set back to an earlier instant; the time that has really
\* passed stays what it is.  The first time it is set back by any amount,
\* after that only while the amounts sum up to MaxSkew at most.
ClockBack ==
    /\ \E u \in Instants :
         /\ u < now
         /\ skew = 0 \/ skew + (now - u) <= MaxSkew
         /\ now' = u
         /\ skew' = skew + (now - u)
    /\ UNCHANGED <<wiring, peer, tickPending, clients, rlMutex, pc, req, local, resp, sweep,
                   admitted, history, svc>>
TickSweep == Advance(SweepInstants)

\* A step of the rate-limit stage of the goroutine serving a request.
Limit(p) ==
    \/ isAllowed_Lock(p)
    \/ isAllowed_Client(p)
    \/ isAllowed_Check(p)
    \/ isAllowed_Append(p)
    \/ rateLimitMiddleware_Deny(p)
    \/ getRemainingRequests_RLock(p)
    \/ getRemainingRequests_Client(p)
    \/ getRemainingRequests_Count(p)
    \/ rateLimitMiddleware_Headers(p)

\* A step of the goroutine serving a request.
Serve(p) ==
    \/ Limit(p)
    \/ Handler(p)
    \/ Finish(p)

(***************************************************************************)
(* The first minutes of the server, before the reclaimer's ticker fires:   *)
(* concurrent requests of several identities on one route.                 *)
(***************************************************************************)
Next ==
    \/ \E p \in Procs : Request(p) \/ Serve(p)
    \/ Tick

Spec == Init /\ [][Next]_vars

(***************************************************************************)
(* The server as main wires it, under the requests of one identity served  *)
(* one at a time on all the routes, the clock read at whole minutes.       *)
(***************************************************************************)
InitRoutes ==
    /\ Start
    /\ wiring = [route \in Routes |-> RouteQuota(route)]

OneIdentity == CHOOSE ip \in {getClientIP(r) : r \in Requests} : TRUE
WholeMinutes == {k * Minute : k \in 1 .. MaxMinutes}
TickMinute == Advance(WholeMinutes)

RequestOne(p) ==
    \E r \in {x \in Requests : getClientIP(x) = OneIdentity}, route \in DOMAIN wiring :
        protectedHandler(p, r, route, wiring[route])

NextRoutes ==
    \/ \E p \in {1} : RequestOne(p) \/ Serve(p)
    \/ TickMinute

SpecRoutes == InitRoutes /\ [][NextRoutes]_vars

(***************************************************************************)
(* The server with its reclaimer, over the first sweep: requests of        *)
(* several identities on one route, served one at a time.                  *)
(***************************************************************************)
InitSweep ==
    /\ Start
    /\ wiring \in [{"/ai/generate"} -> Quotas]

NextSweep ==
    \/ \E p \in {1} : Request(p) \/ Serve(p)
    \/ cleanup_Lock
    \/ cleanup_Visit
    \/ cleanup_Unlock
    \/ TickSweep

SpecSweep == InitSweep /\ [][NextSweep]_vars

(***************************************************************************)
(* The server with its reclaimer, concurrent requests of one identity on   *)
(* three routes of different quotas, one of them 0, the clock read at the  *)
(* start and when the reclaimer's ticker fires.                            *)
(***************************************************************************)
InitShared ==
    /\ Start
    /\ wiring = [route \in {"/ai/complete", "/ai/generate", "/health"} |->
                   CASE route = "/health" -> MaxQuota
                     [] route = "/ai/generate" -> MaxQuota - 1
                     [] route = "/ai/complete" -> 0]

TickInterval == Advance({CleanupInterval})

NextShared ==
    \/ \E p \in Procs : RequestOne(p) \/ Serve(p)
    \/ cleanup_Lock
    \/ cleanup_Visit
    \/ cleanup_Unlock
    \/ TickInterval

SpecShared == InitShared /\ [][NextShared]_vars

(***************************************************************************)
(* The limiter's locks under fair scheduling: concurrent requests of two   *)
(* identities on one route and the reclaimer's first sweep.  A goroutine   *)
(* that can run does run, and one that waits for a mutex gets it if the    *)
(* mutex is free again and again: sync.Mutex hands the lock to a waiter    *)
(* that has waited for 1 ms (starvation mode), and a waiting writer of a   *)
(* sync.RWMutex holds off new readers.  No client owes a request and time  *)
(* owes no tick.                                                           *)
(***************************************************************************)
InitLocks ==
    /\ Start
    /\ wiring = [route \in {"/health"} |-> MaxQuota - 1]

LockRequests ==
    [method : {"POST"}, xff : {<<>>}, xri : {<<>>}, remoteAddr : RemoteAddrs]

RequestLocks(p) ==
    \E r \in LockRequests, route \in DOMAIN wiring :
        protectedHandler(p, r, route, wiring[route])

\* One sweep of the reclaimer, step by step.
cleanupOldClients ==
    \/ cleanup_Lock
    \/ cleanup_Visit
    \/ cleanup_Unlock

NextLocks ==
    \/ \E p \in Procs : RequestLocks(p) \/ Limit(p) \/ HandleHealth(p) \/ Finish(p)
    \/ cleanupOldClients
    \/ TickInterval

FairLocks ==
    /\ \A p \in Procs : SF_vars(Limit(p))
    /\ SF_vars(cleanupOldClients)

SpecLocks == InitLocks /\ [][NextLocks]_vars /\ FairLocks

(***************************************************************************)
(* The server with its reclaimer over two sweeps, under fair scheduling:   *)
(* time passes, every goroutine that can take a step eventually takes it,  *)
(* and the reclaimer, whose Lock the requests can hold off again and       *)
(* again, eventually gets it (sync.RWMutex lets no waiting writer starve). *)
(***************************************************************************)
Horizon == MaxSweeps * CleanupInterval
ReclaimInstants == SweepInstants \cup {Horizon}
TickReclaim == Advance(ReclaimInstants)

NextReclaim ==
    \/ \E p \in {1} : Request(p) \/ Serve(p)
    \/ cleanup_Lock
    \/ cleanup_Visit
    \/ cleanup_Unlock
    \/ TickReclaim

FairReclaim ==
    /\ WF_vars(TickReclaim)
    /\ \A p \in {1} : WF_vars(Serve(p))
    /\ SF_vars(cleanup_Lock)
    /\ WF_vars(cleanup_Visit)
    /\ WF_vars(cleanup_Unlock)

SpecReclaim == InitSweep /\ [][NextReclaim]_vars /\ FairReclaim

(***************************************************************************)
(* The AI routes with their handlers and the backend behind them: the      *)
(* requests of one identity, served one at a time.                         *)
(***************************************************************************)
InitDispatch ==
    /\ Start
    /\ wiring = [route \in AIRoutes |-> MaxQuota]

DispatchRequests ==
    [method : {"POST", "GET", "OPTIONS"}, xff : {<<>>}, xri : {<<>>},
     remoteAddr : {<<"A", ":", "1">>}]

RequestAI(p) ==
    \E r \in DispatchRequests, route \in DOMAIN wiring :
        protectedHandler(p, r, route, wiring[route])

NextDispatch ==
    \/ \E p \in {1} : RequestAI(p) \/ Limit(p) \/ HandleAI(p) \/ Finish(p)
    \/ Tick

SpecDispatch == InitDispatch /\ [][NextDispatch]_vars

(***************************************************************************)
(* One route and one identity under a host clock that may be set back.     *)
(***************************************************************************)
NextSkew ==
    \/ \E p \in {1} : RequestOne(p) \/ Serve(p)
    \/ Tick
    \/ ClockBack

SpecSkew == InitSweep /\ [][NextSkew]_vars

(***************************************************************************)
(* One connection whose request is fixed beforehand: what getClientIP      *)
(* makes of it, and the limiter behind.                                    *)
(***************************************************************************)
InitIdentity ==
    /\ Boot
    /\ peer \in PeerRequests
    /\ wiring = [route \in {"/ai/generate"} |-> MaxQuota]

Accept(p) ==
    \E route \in DOMAIN wiring : protectedHandler(p, peer, route, wiring[route])

NextIdentity ==
    \/ \E p \in {1} : Accept(p) \/ Serve(p)
    \/ Tick

SpecIdentity == InitIdentity /\ [][NextIdentity]_vars

\* The goroutine of a request keeps running, the body of the request
\* arrives, and the timer of s.client runs; the backend owes nothing.
FairDispatch ==
    \A p \in {1} :
        /\ WF_vars(HandleAI_Method(p))
        /\ WF_vars(HandleAI_Decode(p))
        /\ WF_vars(GetAI_Call(p))
        /\ WF_vars(Backend_Timeout(p))
        /\ WF_vars(HandleAI_Respond(p))

SpecDispatchFair == InitDispatch /\ [][NextDispatch]_vars /\ FairDispatch

\* The AI routes with callers that may go away during the backend call.
NextCancel ==
    \/ NextDispatch
    \/ \E p \in {1} : Client_Disconnect(p)

SpecCancel == InitDispatch /\ [][NextCancel]_vars

(***************************************************************************)
(* The five routes that have a handler of their own, with requests of any  *)
(* verb.                                                                   *)
(***************************************************************************)
HandledRoutes == AIRoutes \cup {"/ai/model-info", "/health"}

InitVerbs ==
    /\ Start
    /\ wiring = [route \in HandledRoutes |-> MaxQuota]

NextVerbs ==
    \/ \E p \in {1} :
           \/ RequestAI(p) \/ Limit(p) \/ HandleAI(p) \/ Finish(p)
           \/ HandleHealth(p)
           \/ HandleModelInfo_Call(p)
           \/ HandleModelInfo_Respond(p)
    \/ Tick

SpecVerbs == InitVerbs /\ [][NextVerbs]_vars


(***************************************************************************)
(* Properties.                                                             *)
(***************************************************************************)
\* isAllowed has just returned to the middleware of p.
Decided(p) == pc[p] \in {"deny", "getRemaining_rlock"}
\* p is past its admission check and its response is not yet sent.
InFlightDecided(p) ==
    pc[p] \in {"deny", "getRemaining_rlock", "getRemaining_client",
               "getRemaining_count", "headers", "next"}
\* The step is p's step at program point l.
StepAt(p, l) == pc[p] = l /\ pc'[p] # l

\* C1: a check is admitted exactly when fewer than N requests of its
\* identity were admitted in the minute that ends at the check, N being the
\* quota: the N-th request in a rolling 60-second window is admitted, the
\* (N+1)-th denied.
C1_NthAdmittedNextDenied ==
    \A p \in Procs :
        Decided(p) => (local[p].allowed <=> local[p].seen < req[p].limit)

\* Two requests of one identity under the largest quota: one has been
\* admitted as the N-th of its minute, the other denied as the (N+1)-th.
C1_Witness ==
    \E p, q \in Procs :
        /\ req[p].clientIP = req[q].clientIP
        /\ req[p].limit = MaxQuota /\ req[q].limit = MaxQuota
        /\ pc[p] = "deny" /\ ~local[p].allowed /\ local[p].seen = MaxQuota
        /\ pc[q] = "getRemaining_rlock" /\ local[q].allowed
        /\ local[q].seen = MaxQuota - 1

\* C2: under every interleaving of concurrent requests of one identity, at
\* most N requests are admitted within a minute, N being the quota of the
\* route, a request is denied only when N were admitted in its minute, and
\* no two requests admitted at the same instant saw the same count before
\* their own timestamp was added.
C2_NoOverAdmission ==
    /\ \A ip \in IPs, route \in DOMAIN wiring :
           Len(admitted[ip]) <= wiring[route]
    /\ \A ip \in IPs : \A i, j \in 1 .. Len(admitted[ip]) :
           (i < j /\ admitted[ip][i].t = admitted[ip][j].t)
               => admitted[ip][i].seen # admitted[ip][j].seen
    /\ \A p \in Procs :
           (Decided(p) /\ ~local[p].allowed) => local[p].seen >= req[p].limit

\* Two concurrent requests of one identity against quota 1, both past their
\* check at the same instant: one admitted, the other denied.
C2_Witness ==
    \E p, q \in Procs :
        /\ p # q
        /\ req[p].clientIP = req[q].clientIP
        /\ req[p].limit = 1 /\ req[q].limit = 1
        /\ InFlightDecided(p) /\ local[p].allowed
        /\ pc[q] = "deny" /\ ~local[q].allowed
        /\ Len(admitted[req[p].clientIP]) = 1
        /\ admitted[req[p].clientIP][1].t = now

\* The stored window of p's identity is full, its first timestamp is a
\* minute old or older and no other one is.
OnlyOldestAged(p) ==
    LET w == Window(req[p].clientIP)
    IN  /\ req[p].limit >= 1
        /\ Len(w) = req[p].limit
        /\ now - w[1] >= Minute
        /\ \A i \in 2 .. Len(w) : now - w[i] < Minute

\* The stored window of p's identity is full and none of its timestamps is
\* a minute old.
FullAndFresh(p) ==
    LET w == Window(req[p].clientIP)
    IN  /\ Len(w) = req[p].limit
        /\ \A i \in 1 .. Len(w) : now - w[i] < Minute

C4_IdentitiesIndependent ==
    [][\A ip \in IPs :
         \/ /\ HasClient(ip)' = HasClient(ip)
            /\ HasClient(ip) => clients'[ip] = clients[ip]
            /\ \/ admitted'[ip] = admitted[ip]
               \/ now' # now
         \/ \E p \in Procs : req[p].clientIP = ip /\ pc'[p] # pc[p]
      ]_vars

\* A request of one identity has just added its timestamp while a request
\* of another identity, admitted earlier, is still being served.
C4_Witness ==
    \E p, q \in Procs :
        /\ req[p].clientIP # req[q].clientIP
        /\ pc[p] = "getRemaining_rlock"
        /\ pc[q] \in {"getRemaining_count", "headers", "next"}
        /\ Window(req[p].clientIP) # <<>>
        /\ Window(req[q].clientIP) # <<>>

HasHeader(h, name, value) == name \in DOMAIN h /\ h[name] = value
HasRateLimitHeader(h) ==
    \E name \in {"X-RateLimit-Limit", "X-RateLimit-Remaining", "X-RateLimit-Reset"} :
        name \in DOMAIN h

\* C6: a preflight request (method OPTIONS) is answered at once with status
\* 200 by the CORS stage: the handler is not called, no rate-limit header is
\* set, and the step leaves the store, its locks and the history of
\* admissions as they were, so the identity's quota is not touched.
C6_PreflightBypassesLimiter ==
    [][\A p \in Procs :
         req'[p].method = "OPTIONS"
             => /\ pc'[p] = "done"
                /\ resp'[p].status = StatusOK
                /\ resp'[p].calls = 0
                /\ ~HasRateLimitHeader(resp'[p].hdr)
                /\ StepAt(p, "idle")
                       => /\ clients' = clients
                          /\ rlMutex' = rlMutex
                          /\ admitted' = admitted
      ]_vars

\* A preflight request of an identity that has used up the largest quota is
\* answered 200, and the identity's window holds what it held.
C6_Witness ==
    \E p \in Procs :
        /\ pc[p] = "done"
        /\ req[p].method = "OPTIONS"
        /\ resp[p].status = StatusOK
        /\ req[p].limit = MaxQuota
        /\ Len(admitted[req[p].clientIP]) = MaxQuota
        /\ Len(Window(req[p].clientIP)) = MaxQuota

CORSHeaders(h) ==
    /\ HasHeader(h, "Access-Control-Allow-Origin", "*")
    /\ HasHeader(h, "Access-Control-Allow-Methods", "GET, POST, OPTIONS")
    /\ HasHeader(h, "Access-Control-Allow-Headers", "Content-Type")

C8_HandlerIffAdmitted ==
    \A p \in Procs :
        /\ pc[p] # "done" => resp[p].calls = 0
        /\ (pc[p] = "done" /\ req[p].method # "OPTIONS")
               => IF local[p].allowed
                  THEN /\ resp[p].calls = 1
                       /\ resp[p].status # StatusTooManyRequests
                  ELSE /\ resp[p].calls = 0
                       /\ resp[p].status = StatusTooManyRequests
                       /\ HasHeader(resp[p].hdr, "X-RateLimit-Limit", req[p].limit)
                       /\ HasHeader(resp[p].hdr, "X-RateLimit-Remaining", 0)
                       /\ "X-RateLimit-Reset" \in DOMAIN resp[p].hdr

\* An admitted request whose handler ran once and a denied one, answered
\* 429 without a call of the handler.
C8_Witness ==
    \E p, q \in Procs :
        /\ pc[p] = "done" /\ req[p].method = "POST"
        /\ local[p].allowed /\ resp[p].calls = 1
        /\ pc[q] = "done" /\ req[q].method = "POST"
        /\ ~local[q].allowed /\ resp[q].calls = 0
        /\ resp[q].status = StatusTooManyRequests

\* C9, as claimed: the headers of an admitted request report as remaining
\* the quota less the number of timestamps in the window right after the
\* request's own was added, and as reset the request's time plus 60 s,
\* whatever runs between the check and the computation of the headers.
\* Stated for the headers written at the very instant of the check, where
\* no timestamp has aged since.
C9_RemainingAfterOwnAppend ==
    \A p \in Procs :
        (pc[p] = "next" /\ now = local[p].t)
            => /\ HasHeader(resp[p].hdr, "X-RateLimit-Remaining",
                            req[p].limit - (local[p].seen + 1))
               /\ HasHeader(resp[p].hdr, "X-RateLimit-Reset",
                            Unix(local[p].t + Minute))

\* C10, as claimed: the reset reported to a denied request is the time of
\* the oldest timestamp its check retained, plus 60 s.  Stated for the
\* response written at the very instant of the check.
C10_ResetIsOldestPlusMinute ==
    [][\A p \in Procs :
         (StepAt(p, "deny") /\ local[p].oldest # <<>> /\ now = local[p].t)
             => HasHeader(resp'[p].hdr, "X-RateLimit-Reset",
                          Unix(local[p].oldest[1] + Minute))
      ]_vars


AdmittedPath ==
    {"isAllowed_append", "getRemaining_rlock", "getRemaining_client",
     "getRemaining_count", "headers", "next"}
C12_ZeroQuotaDenies ==
    /\ \A p \in Procs :
           (pc[p] # "idle" /\ req[p].method # "OPTIONS" /\ req[p].limit = 0)
               => /\ pc[p] \notin AdmittedPath
                  /\ ~local[p].allowed
                  /\ resp[p].calls = 0
                  /\ pc[p] = "done" => resp[p].status = StatusTooManyRequests
    /\ (\A route \in DOMAIN wiring : wiring[route] = 0)
           => \A ip \in DOMAIN clients : Window(ip) = <<>>

\* Two requests of one identity have been checked against quota 0: the
\* first is answered 429, the second has just been denied, and the stored
\* window is empty.
C12_Witness ==
    \E p, q \in Procs :
        /\ p # q
        /\ pc[p] = "deny" /\ req[p].limit = 0
        /\ pc[q] = "done" /\ req[q].limit = 0
        /\ req[q].clientIP = req[p].clientIP
        /\ resp[q].status = StatusTooManyRequests
        /\ HasClient(req[p].clientIP)
        /\ Window(req[p].clientIP) = <<>>


\* C11: the remaining quota attached to any response is never negative,
\* whatever the quota of the route: neither the value getRemainingRequests
\* returns nor the X-RateLimit-Remaining header of a response.
C11_RemainingNeverNegative ==
    \A p \in Procs :
        /\ local[p].remaining >= 0
        /\ "X-RateLimit-Remaining" \in DOMAIN resp[p].hdr
               => resp[p].hdr["X-RateLimit-Remaining"] >= 0

\* An admitted request on a route finds, when its remaining quota is
\* computed, more fresh timestamps in the window of its identity than the
\* quota of its route, a route of a larger quota having admitted a request
\* in between; it reports 0.
C11_Witness ==
    \E p \in Procs :
        /\ pc[p] = "next"
        /\ HasClient(req[p].clientIP)
        /\ Len(ValidRequests(Window(req[p].clientIP), now)) > req[p].limit
        /\ resp[p].hdr["X-RateLimit-Remaining"] = 0


\* C13: the entry of an identity leaves the store only in a step of a
\* reclaimer sweep, and only if none of its stored timestamps is newer than
\* the time the sweep read less 5 minutes; an identity admitted within the
\* 5 minutes before the sweep is never removed.
C13_SweepRemovesOnlyIdle ==
    [][\A ip \in IPs :
         (HasClient(ip) /\ ip \notin DOMAIN clients')
             => /\ sweep.pc = "range"
                /\ rlMutex.w = Sweeper
                /\ sweep.t <= now
                /\ \A i \in 1 .. Len(Window(ip)) :
                       Window(ip)[i] + CleanupMinutes * SecondsPerMinute * TicksPerSecond
                           <= sweep.t
                /\ \/ history[ip].last = NoTime
                   \/ history[ip].last + CleanupMinutes * SecondsPerMinute * TicksPerSecond
                          <= sweep.t]_vars

\* A sweep has visited two identities that were both admitted: it removed
\* the one and kept the other, whose latest admission is less than 5 minutes
\* old.
C13_Witness ==
    \E ip, other \in IPs :
        /\ sweep.pc = "range"
        /\ sweep.todo = {}
        /\ history[ip].evicted /\ ~HasClient(ip) /\ history[ip].last # NoTime
        /\ HasClient(other)
        /\ Window(other) # <<>>
        /\ history[other].last + CleanupInterval > sweep.t


\* C14: once the reclaimer has removed the entry of an identity, the next
\* request of the identity makes a new entry with an empty window; with a
\* quota of at least 1 its check admits it and its append leaves exactly its
\* own timestamp in the window; and every later check of the identity is
\* decided by its admissions of the trailing minute alone, up to the quota,
\* whatever it was admitted or denied before the removal.
C14_FreshWindowAfterRemoval ==
    [][\A p \in Procs :
         LET ip == req[p].clientIP
         IN  (ip \in IPs /\ history[ip].evicted)
                 => /\ (StepAt(p, "isAllowed_client") /\ ~HasClient(ip))
                           => /\ ip \in DOMAIN clients'
                              /\ clients'[ip].requests = <<>>
                    /\ (StepAt(p, "isAllowed_check") /\ Window(ip) = <<>>
                            /\ req[p].limit >= 1)
                           => /\ pc'[p] = "isAllowed_append"
                              /\ local'[p].allowed
                    /\ (StepAt(p, "isAllowed_append") /\ Window(ip) = <<>>)
                           => clients'[ip].requests = <<local[p].t>>
                    /\ StepAt(p, "isAllowed_check")
                           => /\ local'[p].seen = Len(admitted[ip])
                              /\ local'[p].allowed <=> Len(admitted[ip]) < req[p].limit]_vars

\* An identity whose entry the reclaimer removed has since been admitted
\* anew as often as the quota allows, and its next request is denied.
C14_Witness ==
    \E p \in Procs :
        LET ip == req[p].clientIP
        IN  /\ pc[p] = "deny"
            /\ ip \in IPs
            /\ history[ip].evicted
            /\ req[p].limit = MaxQuota
            /\ Len(Window(ip)) = MaxQuota
            /\ \A i \in 1 .. Len(Window(ip)) : Window(ip)[i] >= CleanupInterval


\* The window of ip holds a timestamp that is still newer than 5 minutes at
\* the last tick of the ticker.
AdmittedLate(ip) ==
    \E i \in 1 .. Len(Window(ip)) :
        Window(ip)[i] + CleanupMinutes * SecondsPerMinute * TicksPerSecond > Horizon

\* A sweep is still to visit ip: the ticker has a tick to deliver, or holds
\* one, or the running sweep has ip left to visit.
SweepAhead(ip) ==
    \/ now < Horizon
    \/ tickPending
    \/ sweep.pc = "range" /\ ip \in sweep.todo

\* The entry of ip is stored, a sweep is still to visit it, and none of its
\* timestamps will be newer than 5 minutes then.
Idle(ip) ==
    /\ HasClient(ip)
    /\ ~AdmittedLate(ip)
    /\ SweepAhead(ip)

\* Every entry a sweep has visited and kept holds a timestamp newer than the
\* time the sweep read less 5 minutes.
SweptAreRecent ==
    sweep.pc = "range"
        => \A ip \in (DOMAIN clients) \ sweep.todo :
               \E i \in 1 .. Len(Window(ip)) :
                   Window(ip)[i] + CleanupMinutes * SecondsPerMinute * TicksPerSecond
                       > sweep.t

\* C15: under fair scheduling the entry of an identity that sends no request
\* for more than 5 minutes is eventually removed from the store, by the
\* first sweep that starts once its last timestamp is 5 minutes old: an
\* entry is not left idle for ever (either it is removed or the identity is
\* admitted again), and no sweep leaves an entry behind that it found idle.
C15_IdleEventuallyRemoved ==
    /\ [](SweptAreRecent)
    /\ \A ip \in IPs : Idle(ip) ~> (~HasClient(ip) \/ AdmittedLate(ip))

\* The reclaimer has removed the entry of an identity that was last admitted
\* less than 5 minutes before the first tick of the ticker: the sweep of the
\* second tick found it idle.
C15_Witness ==
    \E ip \in IPs :
        /\ history[ip].evicted
        /\ history[ip].last > 0
        /\ now = Horizon
        /\ ~HasClient(ip)
        /\ sweep.pc = "wait"
        /\ \A p \in Procs : pc[p] = "idle"

\* The handler of p has answered after its backend call in one of the ways
\* a call can end.
Outcomes == {"Succeeded", "BackendError", "TimedOut", "MalformedResponse"}
Failures == Outcomes \ {"Succeeded"}
\* The times of the admissions of ip in the minute that ends now.
AdmissionTimes(ip) ==
    [i \in 1 .. Len(Trailing(admitted[ip], now + skew)) |->
        Trailing(admitted[ip], now + skew)[i].t]
\* s begins with the sequence t.
StartsWith(s, t) == Len(s) >= Len(t) /\ SubSeq(s, 1, Len(t)) = t

\* C16: admission accounting is never rolled back.  In every state, whatever
\* the handler and the backend have done, the timestamps of an identity that
\* are younger than a minute are exactly the admissions of its last minute,
\* one timestamp for each admission, failed or successful; and no step
\* removes a timestamp that is still younger than a minute after the step.
C16_AdmissionNeverRolledBack ==
    /\ [](\A ip \in IPs : ValidRequests(Window(ip), now) = AdmissionTimes(ip))
    /\ [][\A ip \in IPs :
            StartsWith(ValidRequests(IF ip \in DOMAIN clients'
                                     THEN clients'[ip].requests ELSE <<>>, now'),
                       ValidRequests(Window(ip), now'))]_vars

\* A request was admitted as the last its quota allows, its backend call
\* failed while the clock moved on, and the timestamp of its admission is
\* still in the window.
C16_Witness ==
    \E p \in Procs :
        LET ip == req[p].clientIP
        IN  /\ pc[p] = "done"
            /\ svc[p].stage \in Failures
            /\ resp[p].status = StatusInternalServerError
            /\ now > history[ip].last
            /\ Len(ValidRequests(Window(ip), now)) = req[p].limit
            /\ Window(ip)[Len(Window(ip))] = history[ip].last

\* The handler of p has read and decoded the body of its request.
BodyRead(p) == svc[p].stage \notin {"", "Received"} /\ req[p].method = "POST"
\* The body is not valid JSON, or the required field of the route is missing
\* from it or empty.
BadInput(route, body) ==
    \/ ~ValidJSON(body)
    \/ EmptyRequired(route, Decode(body, HandlerOf(route).required))

\* C17: on the three AI routes a request whose required field is missing or
\* empty, or whose body is not valid JSON, is answered with 400 and no
\* backend call is made for it.
C17_BadInputAnswered400 ==
    \A p \in Procs :
        (BodyRead(p) /\ BadInput(req[p].route, svc[p].body))
            => /\ svc[p].sent = <<>>
               /\ pc[p] # "done" \/ resp[p].status = StatusBadRequest

\* What the caller of p's request has put in its body.
Supplied(p) == Decode(svc[p].body, HandlerOf(req[p].route).required)

\* C18: on the three AI routes the max_tokens sent to the backend is 150
\* whenever the caller's is omitted or 0 and the temperature sent is 0.7
\* whenever the caller's is omitted or 0; a value of the caller that is not 0
\* is sent as it is.
C18_DefaultsInjected ==
    \A p \in Procs :
        \A i \in 1 .. Len(svc[p].sent) :
            /\ svc[p].sent[i].maxTokens =
                   IF Supplied(p).maxTokens = 0 THEN 150 ELSE Supplied(p).maxTokens
            /\ svc[p].sent[i].temperature =
                   IF Supplied(p).temperature = 0 THEN 7 ELSE Supplied(p).temperature

\* A chat completion request with a temperature of null and a max_tokens that
\* is not 0 has been sent to the backend: the temperature as 0.7, the
\* max_tokens as it came.
C18_Witness ==
    \E p \in Procs :
        /\ req[p].route = "/ai/chat/completions"
        /\ svc[p].stage = "Dispatched"
        /\ Len(svc[p].sent) = 1
        /\ \E i \in 1 .. Len(svc[p].body) :
               svc[p].body[i] = Null("temperature")
        /\ Supplied(p).maxTokens # 0
        /\ svc[p].sent[1].maxTokens = Supplied(p).maxTokens
        /\ svc[p].sent[1].temperature = DefaultTemperature

\* The message holds nothing of the backend: no data copied from its
\* response, no status printed, not its address.
NothingOfBackend(message) ==
    \A i \in 1 .. Len(message) :
        /\ message[i].data = <<>>
        /\ message[i].n = 0
        /\ message[i].lit \notin {llmBaseURL} \cup {HandlerOf(r).endpoint : r \in AIRoutes}

Terminal == Outcomes \cup {"Rejected"}
\* The steps of the state machine of a request; the last is the goroutine
\* leaving the request behind.
StageStep(a, b) ==
    \/ a = "" /\ b \in {"Received", "Rejected"}
    \/ a = "Received" /\ b \in {"Validated", "Rejected"}
    \/ a = "Validated" /\ b \in {"Dispatched", "Rejected"}
    \/ a = "Dispatched" /\ b \in Outcomes
    \/ a \in Terminal /\ b = ""

ContentFields(route) ==
    CASE route = "/ai/chat/completions" -> <<"content", "generated_text">>
      [] route = "/ai/complete" -> <<"completion">>
      [] route = "/ai/generate" -> <<"generated_text">>
\* The members of a payload that is one JSON object.
Members(body) ==
    IF ValidJSON(body) THEN SelectSeq(SubSeq(body, 2, Len(body) - 1), IsMember) ELSE <<>>
\* The text of the first of the content fields the payload has.
FirstPresent(route, body) ==
    LET fields == ContentFields(route)
        at == {i \in 1 .. Len(fields) :
                   LastMember(Members(body), fields[i]).type = "string"}
    IN  IF at = {} THEN ""
        ELSE LastMember(Members(body), fields[CHOOSE i \in at : \A j \in at : i <= j]).s

\* C21: when the backend call succeeds, the answer of each of the three
\* operations carries the text of the first content field the payload has,
\* with the white space around it trimmed, together with a timestamp and the
\* configured model name.
C21_TextExtractedAndTrimmed ==
    \A p \in Procs :
        (pc[p] = "done" /\ svc[p].stage = "Succeeded")
            => /\ resp[p].status = StatusOK
               /\ svc[p].out.response =
                      TrimText(FirstPresent(req[p].route, svc[p].reply.body))
               /\ svc[p].out.timestamp \in 0 .. now
               /\ svc[p].out.model = "distilgpt2"

\* The payload is a JSON object with none of the content fields of the
\* operation.
LacksContent(route, body) ==
    /\ ValidJSON(body)
    /\ \A i \in 1 .. Len(Members(body)), j \in 1 .. Len(ContentFields(route)) :
           Members(body)[i].k # ContentFields(route)[j]
\* The errors the service function returns when the transport fails or the
\* timeout expires.
TransportErrors(route) ==
    {ServiceResult(route, r).err : r \in {r \in Replies : r.kind # "response"}}

\* C22: when the backend answers 200 with a payload that holds none of the
\* content fields, the caller is answered with 500 and the fixed message of
\* the route, never with 200 and an empty text, and the error the service
\* function returns is not one it returns for a transport failure or a
\* timeout.
C22_MissingFieldIsContractError ==
    \A p \in Procs :
        (/\ pc[p] = "done"
         /\ svc[p].reply.kind = "response"
         /\ svc[p].reply.status = StatusOK
         /\ LacksContent(req[p].route, svc[p].reply.body))
            => /\ resp[p].status = StatusInternalServerError
               /\ svc[p].out.message = <<Piece(HandlerOf(req[p].route).failed)>>
               /\ svc[p].out.response = ""
               /\ svc[p].stage = "MalformedResponse"
               /\ svc[p].err # NoError
               /\ svc[p].err \notin TransportErrors(req[p].route)

\* The backend has answered a chat completion request with 200 and an object
\* that has a completion but neither content nor generated_text, and the
\* caller has been answered with 500.
C22_Witness ==
    \E p \in Procs :
        /\ pc[p] = "done"
        /\ req[p].route = "/ai/chat/completions"
        /\ svc[p].reply.status = StatusOK
        /\ svc[p].reply.body = Object(<<Str("completion", "text")>>)
        /\ resp[p].status = StatusInternalServerError
        /\ svc[p].stage = "MalformedResponse"

\* The verb each route is documented with.
RouteVerb(route) == IF route \in AIRoutes THEN "POST" ELSE "GET"

\* C23: on each of the five routes an admitted request with a verb that is
\* neither the verb of the route nor OPTIONS is answered with 405; no backend
\* call is made for it and it is not answered with 200.
C23_WrongVerbIs405 ==
    \A p \in Procs :
        (/\ resp[p].calls > 0
         /\ req[p].method \notin {RouteVerb(req[p].route), "OPTIONS"})
            => /\ svc[p].sent = <<>>
               /\ resp[p].status # StatusOK
               /\ pc[p] = "done" => resp[p].status = StatusMethodNotAllowed

\* C24: when the inbound request is cancelled while its backend call is in
\* flight, the call is aborted: it ends by the cancellation, not by an answer
\* of the backend or by the timeout of the client.
C24_CancelAbortsBackendCall ==
    [][\A p \in Procs :
          (svc[p].ctxDone /\ pc[p] = "backend" /\ pc'[p] # "backend")
              => svc'[p].reply.kind = "canceled"]_vars

\* The address without its port suffix: what is before the last colon.
RECURSIVE StripPort(_)
StripPort(addr) ==
    IF addr = <<>> THEN <<>>
    ELSE IF addr[Len(addr)] = ":" THEN SubSeq(addr, 1, Len(addr) - 1)
    ELSE StripPort(SubSeq(addr, 1, Len(addr) - 1))
HasPort(addr) == \E i \in 1 .. Len(addr) : addr[i] = ":"
\* The identity of a request by the order of precedence.
IdentityOf(r) ==
    IF r.xff # <<>> THEN TrimSpace(SplitFirst(r.xff, ","))
    ELSE IF r.xri # <<>> THEN r.xri
    ELSE IF HasPort(r.remoteAddr) THEN StripPort(r.remoteAddr)
    ELSE r.remoteAddr

\* C25: the identity getClientIP gives a request is the first value of
\* X-Forwarded-For, trimmed, if the header is not empty; else X-Real-IP as it
\* is if not empty; else the peer address without its port suffix, for every
\* form of peer address.
C25_IdentityByPrecedence ==
    \A p \in Procs :
        (pc[p] # "idle" /\ peer # NoPeer) => req[p].clientIP = IdentityOf(peer)

\* C26: under a host clock that is set back the limiter only gets stricter.
\* A check that admits has seen fewer admissions than the quota in the minute
\* that has really passed before it, so it would also admit if every
\* timestamp were dropped exactly 60 seconds after its admission; and a
\* window never holds more timestamps than the quota.
C26_ClockBackOnlyStricter ==
    /\ \A p \in Procs :
           (Decided(p) /\ local[p].allowed) => local[p].seen < req[p].limit
    /\ \A ip \in DOMAIN clients, route \in DOMAIN wiring :
           Len(Window(ip)) <= wiring[route]

\* The clock has been set back, and a request is denied on a timestamp that
\* was admitted more than a minute ago: fewer admissions than the quota lie
\* in the minute that has really passed.
C26_Witness ==
    \E p \in Procs :
        /\ skew > 0
        /\ pc[p] = "deny"
        /\ req[p].limit > 0
        /\ local[p].seen < req[p].limit
        /\ Len(Window(req[p].clientIP)) = req[p].limit

\* p is inside its check: it holds the lock of its identity's window and
\* prunes the window or appends to it.
InsideCheck(p) == pc[p] \in {"isAllowed_check", "isAllowed_append"}
\* q has called isAllowed and waits to get in.
AtCheckEntry(q) == pc[q] = "isAllowed_lock"

\* C27: checks of different identities never contend on a lock: while a
\* request is inside its check, a request of another identity that enters
\* its own check is not held up; checks of one identity are serialized.
C27_DifferentIdentitiesDoNotContend ==
    \A p, q \in Procs :
        p # q =>
            /\ (/\ InsideCheck(p)
                /\ AtCheckEntry(q)
                /\ req[p].clientIP # req[q].clientIP)
                   => CanLock(rlMutex)
            /\ (req[p].clientIP = req[q].clientIP)
                   => ~(InsideCheck(p) /\ InsideCheck(q))

\* p has recorded its timestamp in the window it took from the store.
Recorded(p) ==
    pc[p] \in {"getRemaining_rlock", "getRemaining_client", "getRemaining_count",
               "headers", "next"}
          /\ local[p].allowed

\* C28: one ClientLimiter object is made and stored for an identity, however
\* many first requests of it run at once, and every request records its
\* timestamp in that object: the store holds the timestamps of all the
\* admissions of the identity's last minute.
C28_OneWindowPerIdentity ==
    \A ip \in IPs :
        /\ history[ip].made <= 1
        /\ HasClient(ip) <=> history[ip].made = 1
        /\ ValidRequests(Window(ip), now) = AdmissionTimes(ip)

\* Two first requests of one identity have run at once and both have
\* recorded their timestamps: one object has been made and its window holds
\* both.
C28_Witness ==
    \E p, q \in Procs :
        /\ p # q
        /\ req[p].clientIP = req[q].clientIP
        /\ Recorded(p) /\ Recorded(q)
        /\ history[req[p].clientIP].made = 1
        /\ Len(Window(req[p].clientIP)) = 2
        /\ ~history[req[p].clientIP].evicted

\* The step removes an identity from the store.
Removes(ip) == HasClient(ip) /\ ip \notin DOMAIN clients'

\* C29: in a sweep, identities are removed from the store only after the
\* iteration over the store has completed: no step removes an entry while
\* entries are still to be visited.
C29_RemovalAfterIteration ==
    [][\A ip \in IPs : Removes(ip) => sweep.todo \ {ip} = {}]_vars

\* The step is the return of p's call of isAllowed.
Returns(p) ==
    \/ StepAt(p, "isAllowed_check") /\ pc'[p] = "deny"
    \/ StepAt(p, "isAllowed_append")
\* The step takes timestamps out of the window of ip.
Prunes(ip) ==
    /\ HasClient(ip)
    /\ ip \in DOMAIN clients'
    /\ ~StartsWith(clients'[ip].requests, Window(ip))

\* C30: when a call of isAllowed returns, admitting or denying, every
\* timestamp in the window of its identity is after the call's now less 60
\* seconds; and timestamps leave a window only in a check of the same
\* identity, so that between checks a window may hold timestamps that are a
\* minute old and older.
C30_WindowFreshAfterCheck ==
    [][/\ \A p \in Procs :
             Returns(p) =>
                 \A i \in 1 .. Len(clients'[req[p].clientIP].requests) :
                     After(clients'[req[p].clientIP].requests[i], local'[p].t - Minute)
       /\ \A ip \in IPs :
             Prunes(ip) =>
                 \E p \in Procs :
                     StepAt(p, "isAllowed_check") /\ req[p].clientIP = ip]_vars

\* Between checks: no request is being served, and the window of an identity
\* still holds a timestamp that is a minute old.
C30_Witness ==
    /\ \A p \in Procs : pc[p] = "idle"
    /\ \E ip \in DOMAIN clients :
           /\ Window(ip) # <<>>
           /\ ~After(Window(ip)[1], now - Minute)

\* The timestamps of a window, oldest first.
Sorted(s) == \A i, j \in 1 .. Len(s) : i < j => s[i] <= s[j]

\* The k oldest timestamps of old are dropped and the rest is new.
PrefixTrim(old, new, k) ==
    /\ k \in 0 .. Len(old)
    /\ new = SubSeq(old, k + 1, Len(old))

(***************************************************************************)
(* C31  With a clock that is never set back, the timestamps of every       *)
(* window are in non-decreasing order whatever the interleaving of the     *)
(* concurrent requests, so what the prune of a check drops is a prefix of  *)
(* the window: exactly the timestamps of time <= now - 60 s.               *)
(***************************************************************************)
C31_WindowSortedPrunePrefix ==
    [][/\ \A ip \in DOMAIN clients' : Sorted(clients'[ip].requests)
       /\ \A p \in Procs :
            StepAt(p, "isAllowed_check") =>
                LET old == clients[req[p].clientIP].requests
                    new == clients'[req[p].clientIP].requests
                    k == Len(old) - Len(new)
                IN  /\ PrefixTrim(old, new, k)
                    /\ \A i \in 1 .. Len(old) :
                           (i <= k) <=> (old[i] <= now - Minute)]_vars

\* A check has dropped the older of two timestamps of different times and
\* kept the newer.
C31_Witness ==
    \E p \in Procs :
        /\ pc[p] = "isAllowed_append"
        /\ local[p].dropped > 0
        /\ Window(req[p].clientIP) # <<>>
        /\ \E q \in Procs \ {p} : pc[q] \notin {"idle", "done"}


\* The step is an iteration of the reclaimer's range over the store.
SweepStep == sweep.pc = "range" /\ sweep'.todo # sweep.todo

(***************************************************************************)
(* C32  An entry leaves the store only in a step of the reclaimer's sweep: *)
(* no step of isAllowed, of getRemainingRequests, of the middleware or of  *)
(* a handler removes an identity from the store, so between two sweeps the *)
(* set of the identities stored only grows.                                *)
(***************************************************************************)
C32_OnlySweepRemoves ==
    [][\/ SweepStep
       \/ DOMAIN clients \subseteq DOMAIN clients']_vars

\* The sweep has removed one identity's entry and kept another's, and a
\* request has gone through the whole pipeline with entries in the store.
C32_Witness ==
    /\ \E ip \in IPs : history[ip].evicted /\ ~HasClient(ip)
    /\ DOMAIN clients # {}
    /\ sweep.pc = "wait"
    /\ \E p \in Procs : pc[p] = "done" /\ resp[p].calls > 0


\* The goroutine of p is inside isAllowed or getRemainingRequests.
InLimiter(p) ==
    pc[p] \in {"isAllowed_lock", "isAllowed_client", "isAllowed_check",
               "isAllowed_append", "getRemaining_rlock", "getRemaining_client",
               "getRemaining_count"}
\* The goroutine of p waits for a mutex that another goroutine holds.
Waits(p) ==
    \/ pc[p] = "isAllowed_lock" /\ (rlMutex.w # Free \/ rlMutex.r # {})
    \/ pc[p] = "getRemaining_rlock" /\ rlMutex.w # Free
    \/ /\ pc[p] \in {"isAllowed_client", "getRemaining_client"}
       /\ HasClient(req[p].clientIP)
       /\ clients[req[p].clientIP].mutex # Free
\* The reclaimer has a sweep to do or is in one.
InSweep == sweep.pc = "range" \/ tickPending
\* The reclaimer waits for a mutex that a goroutine holds.
SweepWaits ==
    \/ sweep.pc = "wait" /\ tickPending /\ (rlMutex.w # Free \/ rlMutex.r # {})
    \/ /\ sweep.pc = "range"
       /\ sweep.todo # {}
       /\ \A ip \in sweep.todo : clients[ip].mutex # Free
\* Of the goroutines inside the limiter and the reclaimer at work, one can
\* take its next step.
SomeoneRuns ==
    \/ \E p \in Procs : InLimiter(p) /\ ~Waits(p)
    \/ InSweep /\ ~SweepWaits

(***************************************************************************)
(* C33  No deadlock among the limiter's locks: the store's mutex is always *)
(* taken before a client's and no goroutine takes a second client mutex    *)
(* while it holds one, so with concurrent requests and a concurrent sweep  *)
(* the goroutines never all wait for each other, and under fair scheduling *)
(* every admission check that was started returns, every count of the      *)
(* remaining requests returns, and every sweep is done to its end.         *)
(***************************************************************************)
C33_NoDeadlock ==
    /\ []((InSweep \/ \E p \in Procs : InLimiter(p)) => SomeoneRuns)
    /\ \A p \in Procs :
          /\ (pc[p] = "isAllowed_lock") ~> (pc[p] \in {"deny", "getRemaining_rlock"})
          /\ (pc[p] = "getRemaining_rlock") ~> (pc[p] = "headers")
    /\ tickPending ~> (sweep.pc = "range")
    /\ (sweep.pc = "range") ~> (sweep.pc = "wait")

\* Two goroutines are in their admission checks, one of them with both
\* mutexes and the other waiting for the store's, while the reclaimer has a
\* tick to serve and waits as well.
C33_Witness ==
    /\ \E p, q \in Procs :
          /\ pc[p] \in {"isAllowed_check", "isAllowed_append"}
          /\ pc[q] = "isAllowed_lock"
    /\ sweep.pc = "wait"
    /\ tickPending


(***************************************************************************)
(* C34  The window of an identity is shared by all the routes: the store   *)
(* is keyed by the identity alone, so the admissions of an identity on any *)
(* route count against its quota on every route.  A request on a route of  *)
(* quota Q is denied whenever Q or more requests of its identity were      *)
(* admitted in the trailing minute on all the routes together.             *)
(***************************************************************************)
C34_WindowSharedByRoutes ==
    \A p \in Procs :
        (Decided(p) /\ local[p].seen >= wiring[req[p].route])
            => (~local[p].allowed /\ pc[p] = "deny")

\* At the start, a request on /ai/generate has been denied because of the
\* one admission of its identity, which is that of a request on /health
\* still being served.
C34_Witness ==
    \E p, q \in Procs :
        /\ now = 0
        /\ pc[p] = "deny" /\ req[p].route = "/ai/generate"
        /\ local[p].seen = 1 /\ wiring["/ai/generate"] = 1
        /\ InFlightDecided(q) /\ req[q].route = "/health" /\ local[q].allowed
        /\ Len(admitted[req[p].clientIP]) = 1
        /\ Window(req[p].clientIP) = <<0>>


\* The step is the return of false by p's call of isAllowed.
Denies(p) == StepAt(p, "isAllowed_check") /\ pc'[p] = "deny"

(***************************************************************************)
(* C35  A denied check adds nothing to the window: when isAllowed returns  *)
(* false the window of the identity is its window of before less the       *)
(* timestamps that are a minute old or older, and the rest of the denied   *)
(* request leaves the store as it is; requests made while denied do not    *)
(* postpone the time at which the identity is admitted again.              *)
(***************************************************************************)
C35_DeniedAddsNothing ==
    [][\A p \in Procs :
          /\ Denies(p) =>
                clients'[req[p].clientIP].requests =
                    SelectSeq(clients[req[p].clientIP].requests,
                              LAMBDA reqTime : reqTime > now - Minute)
          /\ (pc[p] \in {"deny", "done"} /\ ~local[p].allowed /\ pc'[p] # pc[p])
                => clients' = clients]_vars

\* A request of an identity has just been denied, after another denied
\* request of the identity, and the window still holds the admissions that
\* fill the quota and nothing else.
C35_Witness ==
    \E p, q \in Procs :
        /\ p # q
        /\ pc[p] = "deny" /\ req[p].limit > 0
        /\ pc[q] = "done" /\ resp[q].status = StatusTooManyRequests
        /\ req[q].clientIP = req[p].clientIP
        /\ Len(Window(req[p].clientIP)) = req[p].limit


\* The goroutine of p has looked up or made the entry of its identity and
\* has not yet returned from isAllowed.
HoldsEntry(p) == pc[p] \in {"isAllowed_check", "isAllowed_append"}

(***************************************************************************)
(* C36  No admission is lost to a race with the reclaimer: from the lookup *)
(* or creation of the entry of its identity to its return, a call of       *)
(* isAllowed finds that entry in the store, locked by itself, no sweep     *)
(* removes it in between, and the timestamp of an admitted request is      *)
(* appended to the window the store holds for the identity.                *)
(***************************************************************************)
C36_NoAdmissionLostToSweep ==
    [][/\ \A p \in Procs :
            HoldsEntry(p) =>
                /\ HasClient(req[p].clientIP)
                /\ clients[req[p].clientIP].mutex = p
                /\ sweep.pc = "wait"
       /\ \A p \in Procs :
            StepAt(p, "isAllowed_append") =>
                /\ req[p].clientIP \in DOMAIN clients'
                /\ clients'[req[p].clientIP].requests =
                       Append(clients[req[p].clientIP].requests, local[p].t)
       /\ \A ip \in IPs :
            (HasClient(ip) /\ ip \notin DOMAIN clients') =>
                \A p \in Procs : ~(HoldsEntry(p) /\ req[p].clientIP = ip)]_vars

\* The ticker has fired and the reclaimer waits for the store, while a
\* request is about to append to a window in which the check found nothing
\* fresh: the sweep would have removed the entry had it come first.
C36_Witness ==
    \E p \in Procs :
        /\ pc[p] = "isAllowed_append"
        /\ tickPending
        /\ sweep.pc = "wait"
        /\ local[p].dropped > 0
        /\ Window(req[p].clientIP) = <<>>


(***************************************************************************)
(* C37  The state kept for a client is bounded: the window of an identity  *)
(* never holds more timestamps than the largest quota the identity has     *)
(* been checked with, which is at most the largest quota wired, however    *)
(* many requests are made and denied and however they interleave.          *)
(***************************************************************************)
C37_WindowBoundedByQuota ==
    \A ip \in IPs :
        /\ Len(Window(ip)) <= history[ip].most
        /\ \E route \in DOMAIN wiring : history[ip].most <= wiring[route]

\* The window of an identity is as long as the largest quota wired, and a
\* request of the identity has just been denied on a route of a smaller
\* quota after another denied request.
C37_Witness ==
    \E p, q \in Procs :
        /\ p # q
        /\ pc[p] = "deny" /\ req[p].limit > 0
        /\ Len(Window(req[p].clientIP)) > req[p].limit
        /\ Len(Window(req[p].clientIP)) = history[req[p].clientIP].most
        /\ pc[q] = "done" /\ resp[q].status = StatusTooManyRequests
        /\ req[q].clientIP = req[p].clientIP


\* The handler of p has rejected its request: 405 for the verb, 400 for the
\* body.
RejectedByHandler(p) ==
    /\ pc[p] = "done"
    /\ svc[p].stage = "Rejected"
    /\ resp[p].status \in {StatusMethodNotAllowed, StatusBadRequest}

(***************************************************************************)
(* C38  Admission is accounted for before any check of the handler: a      *)
(* request that is not a preflight and that its handler rejects with 405   *)
(* or with 400 was admitted by the limiter first, its timestamp is in the  *)
(* window of its identity and counts in the quota like that of a request   *)
(* that reaches the backend, and the rejection gives nothing back.         *)
(***************************************************************************)
C38_AdmissionPrecedesHandlerChecks ==
    /\ [](\A p \in Procs :
            RejectedByHandler(p) =>
                LET ip == req[p].clientIP
                IN  /\ req[p].method # "OPTIONS"
                    /\ local[p].allowed
                    /\ resp[p].calls = 1
                    /\ Window(ip) # <<>>
                    /\ Window(ip)[Len(Window(ip))] = history[ip].last
                    /\ history[ip].last > now - Minute
                          => /\ admitted[ip] # <<>>
                             /\ admitted[ip][Len(admitted[ip])].t = history[ip].last)
    /\ [][\A p \in Procs :
            (svc'[p].stage = "Rejected" /\ svc[p].stage # "Rejected")
                => (clients' = clients /\ admitted' = admitted)]_vars

\* A request has been rejected by its handler and its timestamp is the one
\* that fills the quota of its identity: the next request will be denied.
C38_Witness ==
    \E p \in Procs :
        /\ RejectedByHandler(p)
        /\ req[p].limit = MaxQuota
        /\ Len(admitted[req[p].clientIP]) = req[p].limit
        /\ Window(req[p].clientIP)[Len(Window(req[p].clientIP))] = now


\* The step is a step of p's call of getRemainingRequests.
Counts(p) ==
    \/ StepAt(p, "getRemaining_rlock")
    \/ StepAt(p, "getRemaining_client")
    \/ StepAt(p, "getRemaining_count")
\* The timestamps of window s newer than a minute at time t.
Fresh(s, t) == {i \in 1 .. Len(s) : s[i] > t - Minute}

(***************************************************************************)
(* C39  getRemainingRequests only reads: no step of it adds an entry to    *)
(* the store or removes one, and none changes the timestamps of a window.  *)
(* It returns the quota less the number of timestamps newer than           *)
(* now - 60 s, 0 at least, and quota - 1 when the store has no entry for   *)
(* the identity.                                                           *)
(***************************************************************************)
C39_RemainingIsReadOnly ==
    [][\A p \in Procs :
          Counts(p) =>
              /\ DOMAIN clients' = DOMAIN clients
              /\ \A ip \in DOMAIN clients :
                     clients'[ip].requests = clients[ip].requests
              /\ pc'[p] = "headers" =>
                     IF HasClient(req[p].clientIP)
                     THEN LET n == Cardinality(Fresh(Window(req[p].clientIP), now))
                          IN  local'[p].remaining =
                                  IF n > req[p].limit THEN 0 ELSE req[p].limit - n
                     ELSE local'[p].remaining = req[p].limit - 1]_vars

\* A request was admitted, the sweep has removed the entry of its identity
\* before its call of getRemainingRequests, and the call has returned
\* quota - 1 without making an entry.
C39_Witness ==
    \E p \in Procs :
        /\ pc[p] = "headers"
        /\ ~HasClient(req[p].clientIP)
        /\ history[req[p].clientIP].evicted
        /\ local[p].remaining = req[p].limit - 1
        /\ req[p].limit > 0


=============================================================================
